---- MODULE Spec2Model ----
(***************************************************************************)
(* The Archipelago -> OBS bridges.                                         *)
(*                                                                         *)
(*  - archipelago_obs_standalone.py: ArchipelagoAnimatedBridge reads the   *)
(*    lines a client subprocess prints, parses each into an event, and     *)
(*    drives the OBS control surface: ticker update (RESET, content,       *)
(*    animation tasks), goal celebration, configured action.               *)
(*  - archipelago_obs_bridge.py: ArchipelagoOBSContext receives protocol   *)
(*    packets; on_package spawns one asyncio task per packet.              *)
(*                                                                         *)
(* A line of text is a sequence of one-character strings.                  *)
(***************************************************************************)
EXTENDS Integers, Sequences, FiniteSets, TLC

\* ------------------------------------------------------------------ bounds
\* lines the client process prints in one run
MaxLines == 2
\* animation_steps of the animation_config (the default is 25)
Steps == 1
\* control-surface calls that fail while one event is processed
MaxFailures == 1
\* packets the server sends in one run
MaxPackets == 3
\* items carried by one ReceivedItems packet
MaxItems == 2
\* how many times the parser is run on one line
Runs == 2
\* parts in the data of one PrintJSON packet
MaxParts == 2

\* ------------------------------------------------------------- text helpers
SetMax(S) == CHOOSE x \in S : \A y \in S : y <= x
SetMin(S) == CHOOSE x \in S : \A y \in S : x <= y
From(s, i) == SubSeq(s, i, Len(s))
\* the start positions of pat in s
Occ(s, pat) == {i \in 1..(Len(s) - Len(pat) + 1) : SubSeq(s, i, i + Len(pat) - 1) = pat}

IsSpace(c) == c \in {" ", "\t", "\n", "\r"}
\* str.strip()
Strip(s) ==
    LET keep == {i \in 1..Len(s) : ~IsSpace(s[i])}
    IN IF keep = {} THEN <<>> ELSE SubSeq(s, SetMin(keep), SetMax(keep))

Upper == <<"A", "B", "C", "G", "H", "N", "S", "U", "F", "E", "I", "L", "M", "O", "P", "R", "T", "D">>
Lowered == <<"a", "b", "c", "g", "h", "n", "s", "u", "f", "e", "i", "l", "m", "o", "p", "r", "t", "d">>
LowerChar(c) == IF \E k \in 1..Len(Upper) : Upper[k] = c
                THEN Lowered[CHOOSE k \in 1..Len(Upper) : Upper[k] = c]
                ELSE c
\* str.lower()
Lower(s) == [i \in 1..Len(s) |-> LowerChar(s[i])]

\* the escape character, and the characters [0-9;] of an ANSI colour code
ESC == "ESC"
AnsiParam == {"0", "1", "2", "3", "4", "5", "6", "7", "8", "9", ";"}
\* the position of the "m" that ends the colour code starting at s[1], or 0
AnsiEnd(s) ==
    IF Len(s) < 3 \/ s[1] # ESC \/ s[2] # "["
    THEN 0
    ELSE LET stop == {j \in 3..Len(s) : s[j] \notin AnsiParam}
         IN IF stop # {} /\ s[SetMin(stop)] = "m" THEN SetMin(stop) ELSE 0
RECURSIVE strip_ansi_codes(_)
strip_ansi_codes(s) ==
    IF s = <<>> THEN <<>>
    ELSE IF AnsiEnd(s) > 0 THEN strip_ansi_codes(From(s, AnsiEnd(s) + 1))
    ELSE <<Head(s)>> \o strip_ansi_codes(Tail(s))

\* ------------------------------------------------------ the pattern literals
K_received == <<" ", "r", "e", "c", "e", "i", "v", "e", "d", " ">>
K_from == <<" ", "f", "r", "o", "m", " ">>
K_sent == <<" ", "s", "e", "n", "t", " ">>
K_to == <<" ", "t", "o", " ">>
K_checked == <<" ", "c", "h", "e", "c", "k", "e", "d", " ">>
K_has_joined == <<" ", "h", "a", "s", " ", "j", "o", "i", "n", "e", "d">>
K_has_left == <<" ", "h", "a", "s", " ", "l", "e", "f", "t">>
K_completed == <<" ", "c", "o", "m", "p", "l", "e", "t", "e", "d", " ", "t", "h", "e", "i", "r", " ", "g", "o", "a", "l">>
K_Hint == <<"H", "i", "n", "t", ":", " ">>
K_Notice == <<"N", "o", "t", "i", "c", "e">>
K_has_released == <<" ", "h", "a", "s", " ", "r", "e", "l", "e", "a", "s", "e", "d">>
K_has_collected == <<" ", "h", "a", "s", " ", "c", "o", "l", "l", "e", "c", "t", "e", "d">>
K_connected == <<"S", "u", "c", "c", "e", "s", "s", "f", "u", "l", "l", "y", " ", "c", "o", "n", "n", "e", "c", "t", "e", "d", " ", "t", "o", " ">>
K_Failed == <<"F", "a", "i", "l", "e", "d", " ", "t", "o", " ", "c", "o", "n", "n", "e", "c", "t">>
K_Connection == <<"C", "o", "n", "n", "e", "c", "t", "i", "o", "n">>
K_failed == <<"f", "a", "i", "l", "e", "d">>
K_Unable == <<"U", "n", "a", "b", "l", "e", " ", "t", "o", " ", "c", "o", "n", "n", "e", "c", "t">>
K_close_bracket == <<"]", " ">>
K_colon == <<":", " ">>

\* the literals of the f-strings of handle_parsed_event
T_got == <<" ", "g", "o", "t", " ">>
T_found == <<" ", "f", "o", "u", "n", "d", " ">>
T_joined_the_game == <<" ", "j", "o", "i", "n", "e", "d", " ", "t", "h", "e", " ", "g", "a", "m", "e">>
T_joined == <<" ", "j", "o", "i", "n", "e", "d", "!">>
T_left_the_game == <<" ", "l", "e", "f", "t", " ", "t", "h", "e", " ", "g", "a", "m", "e">>
T_left == <<" ", "l", "e", "f", "t">>
T_completed == <<" ", "c", "o", "m", "p", "l", "e", "t", "e", "d", " ", "t", "h", "e", "i", "r", " ", "g", "o", "a", "l", "!">>
T_COMPLETED == <<" ", "C", "O", "M", "P", "L", "E", "T", "E", "D", " ", "T", "H", "E", "I", "R", " ", "G", "O", "A", "L", "!", " ">>
PARTY == "PARTY"
BULB == "BULB"

KW_item == <<"i", "t", "e", "m">>
KW_location == <<"l", "o", "c", "a", "t", "i", "o", "n">>
KW_player == <<"p", "l", "a", "y", "e", "r">>
KW_goal == <<"g", "o", "a", "l">>
KW_hint == <<"h", "i", "n", "t">>
KW_chat == <<"c", "h", "a", "t">>
Keywords == <<KW_item, KW_location, KW_player, KW_goal, KW_hint, KW_chat>>

\* ------------------------------------------------------------ regex matching
\* the result of pattern.search(line): match.groups(), or no match
NoMatch == [ok |-> FALSE, groups |-> <<>>]
Matched(g) == [ok |-> TRUE, groups |-> g]

\* (.+)K(.+): the first group is greedy, so K is taken at its last occurrence
MatchInfix(s, K) ==
    LET c == {i \in Occ(s, K) : i >= 2 /\ i + Len(K) <= Len(s)}
    IN IF c = {} THEN NoMatch
       ELSE LET i == SetMax(c)
            IN Matched(<<SubSeq(s, 1, i - 1), From(s, i + Len(K))>>)

\* faulty variant: the last group starts at K2, not after it
MatchInfix2Inclusive(s, K1, K2) ==
    LET c == {p \in Occ(s, K1) \X Occ(s, K2) :
                 /\ p[1] >= 2
                 /\ p[2] >= p[1] + Len(K1) + 1
                 /\ p[2] + Len(K2) <= Len(s)}
    IN IF c = {} THEN NoMatch
       ELSE LET i == SetMax({p[1] : p \in c})
                j == SetMax({p[2] : p \in {q \in c : q[1] = i}})
            IN Matched(<<SubSeq(s, 1, i - 1),
                         SubSeq(s, i + Len(K1), j - 1),
                         From(s, j)>>)
\* (.+)K1(.+)K2(.+): both leading groups greedy
MatchInfix2(s, K1, K2) ==
    LET c == {p \in Occ(s, K1) \X Occ(s, K2) :
                 /\ p[1] >= 2
                 /\ p[2] >= p[1] + Len(K1) + 1
                 /\ p[2] + Len(K2) <= Len(s)}
    IN IF c = {} THEN NoMatch
       ELSE LET i == SetMax({p[1] : p \in c})
                j == SetMax({p[2] : p \in {q \in c : q[1] = i}})
            IN Matched(<<SubSeq(s, 1, i - 1),
                         SubSeq(s, i + Len(K1), j - 1),
                         From(s, j + Len(K2))>>)

\* (.+)K
MatchSuffixed(s, K) ==
    LET c == {i \in Occ(s, K) : i >= 2}
    IN IF c = {} THEN NoMatch
       ELSE Matched(<<SubSeq(s, 1, SetMax(c) - 1)>>)

\* K(.+): search() takes the leftmost occurrence
MatchPrefixed(s, K) ==
    LET c == {i \in Occ(s, K) : i + Len(K) <= Len(s)}
    IN IF c = {} THEN NoMatch
       ELSE Matched(<<From(s, SetMin(c) + Len(K))>>)

\* \[(.+?)\] (.+?): (.+)  with both leading groups non-greedy
MatchChat(s) ==
    LET c == {p \in (1..Len(s)) \X Occ(s, K_close_bracket) \X Occ(s, K_colon) :
                 /\ s[p[1]] = "["
                 /\ p[2] >= p[1] + 2
                 /\ p[3] >= p[2] + 3
                 /\ p[3] + 2 <= Len(s)}
    IN IF c = {} THEN NoMatch
       ELSE LET o == SetMin({p[1] : p \in c})
                a == SetMin({p[2] : p \in {q \in c : q[1] = o}})
                b == SetMin({p[3] : p \in {q \in c : q[1] = o /\ q[2] = a}})
            IN Matched(<<SubSeq(s, o + 1, a - 1), SubSeq(s, a + 2, b - 1), From(s, b + 2)>>)

\* Notice.*?: (.+)
MatchNotice(s) ==
    LET c == {p \in Occ(s, K_Notice) \X Occ(s, K_colon) :
                 p[2] >= p[1] + Len(K_Notice) /\ p[2] + 2 <= Len(s)}
    IN IF c = {} THEN NoMatch
       ELSE LET o == SetMin({p[1] : p \in c})
                b == SetMin({p[2] : p \in {q \in c : q[1] = o}})
            IN Matched(<<From(s, b + 2)>>)

\* Failed to connect|Connection.*failed|Unable to connect
MatchConnectionFailed(s) ==
    IF \/ Occ(s, K_Failed) # {}
       \/ \E a \in Occ(s, K_Connection) : \E b \in Occ(s, K_failed) : b >= a + Len(K_Connection)
       \/ Occ(s, K_Unable) # {}
    THEN Matched(<<>>) ELSE NoMatch

\* the patterns dict of process_archipelago_output, in insertion order
patterns == <<"item_received", "item_sent", "location_checked", "player_joined",
              "player_left", "goal_completed", "hint", "chat", "server_message",
              "release", "collect", "connected", "connection_failed">>

PatternSearch(event_type, s) ==
    CASE event_type = "item_received" -> MatchInfix2(s, K_received, K_from)
      [] event_type = "item_sent" -> MatchInfix2(s, K_sent, K_to)
      [] event_type = "location_checked" -> MatchInfix(s, K_checked)
      [] event_type = "player_joined" -> MatchSuffixed(s, K_has_joined)
      [] event_type = "player_left" -> MatchSuffixed(s, K_has_left)
      [] event_type = "goal_completed" -> MatchSuffixed(s, K_completed)
      [] event_type = "hint" -> MatchPrefixed(s, K_Hint)
      [] event_type = "chat" -> MatchChat(s)
      [] event_type = "server_message" -> MatchNotice(s)
      [] event_type = "release" -> MatchSuffixed(s, K_has_released)
      [] event_type = "collect" -> MatchSuffixed(s, K_has_collected)
      [] event_type = "connected" -> MatchPrefixed(s, K_connected)
      [] event_type = "connection_failed" -> MatchConnectionFailed(s)

\* ------------------------------------------------------- event construction
\* the first cut of str.split(d)[0]
SplitFirst(s, d) == IF Occ(s, d) = {} THEN s ELSE SubSeq(s, 1, SetMin(Occ(s, d)) - 1)

\* faulty variant: only the "__" cut is made
ExtractTeamCutOnly(full_player_string) ==
    Strip(SplitFirst(full_player_string, <<"_", "_">>))
extract_player_name(full_player_string) ==
    LET a == Strip(SplitFirst(full_player_string, <<"_", "_">>))
        b == Strip(SplitFirst(a, <<"(">>))
    IN Strip(SplitFirst(b, <<"[">>))

\* the event_data dict handle_parsed_event hands to trigger_obs_event
\* (the timestamp is left out)
handle_parsed_event(event_type, groups, raw_line) ==
    LET base == [raw_line |-> raw_line, event_type |-> event_type]
        g == groups
        p1 == extract_player_name(g[1])
    IN CASE event_type = "item_received" ->
              LET receiving_player == extract_player_name(g[1])
                  sending_player == extract_player_name(g[3])
              IN [receiving_player |-> receiving_player,
                  item_name |-> g[2],
                  sending_player |-> sending_player,
                  text |-> receiving_player \o K_received \o g[2] \o K_from \o sending_player,
                  ticker_text |-> receiving_player \o T_got \o g[2] \o <<"!">>,
                  player_name |-> receiving_player] @@ base
         [] event_type = "item_sent" ->
              LET sending_player == extract_player_name(g[1])
                  receiving_player == extract_player_name(g[3])
              IN [sending_player |-> sending_player,
                  item_name |-> g[2],
                  receiving_player |-> receiving_player,
                  text |-> sending_player \o K_sent \o g[2] \o K_to \o receiving_player,
                  ticker_text |-> sending_player \o K_sent \o g[2] \o <<"!">>,
                  player_name |-> sending_player] @@ base
         [] event_type = "location_checked" ->
              [player_name |-> p1,
               location_name |-> g[2],
               text |-> p1 \o K_checked \o g[2],
               ticker_text |-> p1 \o T_found \o g[2] \o <<"!">>] @@ base
         [] event_type = "player_joined" ->
              [player_name |-> p1,
               text |-> p1 \o T_joined_the_game,
               ticker_text |-> p1 \o T_joined] @@ base
         [] event_type = "player_left" ->
              [player_name |-> p1,
               text |-> p1 \o T_left_the_game,
               ticker_text |-> p1 \o T_left] @@ base
         [] event_type = "goal_completed" ->
              [player_name |-> p1,
               text |-> p1 \o T_completed,
               ticker_text |-> <<PARTY, " ">> \o p1 \o T_COMPLETED \o <<PARTY>>] @@ base
         [] event_type = "hint" ->
              [hint_text |-> g[1],
               text |-> K_Hint \o g[1],
               ticker_text |-> <<BULB, " ">> \o K_Hint \o g[1]] @@ base
         [] event_type = "chat" ->
              LET player_name == extract_player_name(g[2])
              IN [timestamp_str |-> g[1],
                  player_name |-> player_name,
                  message |-> g[3],
                  text |-> player_name \o K_colon \o g[3],
                  ticker_text |-> player_name \o K_colon \o g[3]] @@ base
         [] event_type = "server_message" ->
              [message |-> g[1], text |-> g[1], ticker_text |-> g[1]] @@ base
         [] OTHER ->
              [text |-> raw_line, ticker_text |-> raw_line] @@ base

\* what one line makes parse_and_trigger_events hand to trigger_obs_event:
\* the event of the first matching pattern, else a raw_message when the line
\* holds a keyword, else nothing
NoEvent == [type |-> "none"]
\* faulty variant: the keyword test without line.lower()
HasKeywordExact(line) == \E k \in 1..Len(Keywords) : Occ(line, Keywords[k]) # {}
HasKeyword(line) == \E k \in 1..Len(Keywords) : Occ(Lower(line), Keywords[k]) # {}
\* faulty variant: the loop over the patterns does not return at the first
\* match, so the last matching pattern decides
ParseLastMatch(line) ==
    LET hit == {k \in 1..Len(patterns) : PatternSearch(patterns[k], line).ok}
    IN IF hit # {}
       THEN LET event_type == patterns[SetMax(hit)]
            IN [type |-> event_type,
                data |-> handle_parsed_event(event_type,
                                             PatternSearch(event_type, line).groups, line)]
       ELSE IF HasKeyword(line)
       THEN [type |-> "raw_message", data |-> [text |-> line]]
       ELSE NoEvent
parse_and_trigger_events(line) ==
    LET hit == {k \in 1..Len(patterns) : PatternSearch(patterns[k], line).ok}
    IN IF hit # {}
       THEN LET event_type == patterns[SetMin(hit)]
            IN [type |-> event_type,
                data |-> handle_parsed_event(event_type,
                                             PatternSearch(event_type, line).groups, line)]
       ELSE IF HasKeyword(line)
       THEN [type |-> "raw_message", data |-> [text |-> line]]
       ELSE NoEvent

\* ------------------------------------------------------------------- inputs
LineItem == <<"A", "l", " ", "r", "e", "c", "e", "i", "v", "e", "d", " ", "B", "o", "w", " ", "f", "r", "o", "m", " ", "B", "o">>
LineGoal == <<"A", "l", " ", "c", "o", "m", "p", "l", "e", "t", "e", "d", " ", "t", "h", "e", "i", "r", " ", "g", "o", "a", "l">>
LineCheck == <<"B", "o", " ", "c", "h", "e", "c", "k", "e", "d", " ", "C", "a", "v", "e">>
LineRaw == <<"p", "l", "a", "y", "e", "r", " ", "l", "i", "s", "t">>
LineNoise == <<"o", "k">>
LineBlank == <<" ">>
\* the lines the client process may print
Lines == {LineItem, LineGoal, LineCheck, LineRaw, LineNoise, LineBlank}

\* what the reading loop makes of each line: strip, skip when empty,
\* strip_ansi_codes, parse_and_trigger_events
process_line(raw) ==
    LET line == Strip(raw)
    IN IF line = <<>> THEN NoEvent
       ELSE parse_and_trigger_events(strip_ansi_codes(line))
Events == [raw \in Lines |-> process_line(raw)]

\* ---------------------------------------------------- inputs of the parser
\* the tokens a line is composed of: player strings, item and location names
\* Al, Bo, Al__T, Bo (x), Cy[2], Al with a trailing blank, Hint: Al, Bo has joined
Players ==
    {<<"A", "l">>,
     <<"B", "o">>,
     <<"A", "l", "_", "_", "T">>,
     <<"B", "o", " ", "(", "x", ")">>,
     <<"C", "y", "[", "2", "]">>,
     <<"A", "l", " ">>,
     <<"H", "i", "n", "t", ":", " ", "A", "l">>,
     <<"B", "o", " ", "h", "a", "s", " ", "j", "o", "i", "n", "e", "d">>}
\* Bow, Big Map, Cave
Items ==
    {<<"B", "o", "w">>,
     <<"B", "i", "g", " ", "M", "a", "p">>,
     <<"C", "a", "v", "e">>}
\* lines of no fixed form: the three above, GOAL list, Notice: hi, the item
\* line in colour, Connection failed
FreeLines ==
    {LineRaw,
     LineNoise,
     LineBlank,
     <<"G", "O", "A", "L", " ", "l", "i", "s", "t">>,
     <<"N", "o", "t", "i", "c", "e", ":", " ", "h", "i">>,
     <<ESC, "[", "3", "1", "m">> \o LineItem \o <<ESC, "[", "0", "m">>,
     <<"C", "o", "n", "n", "e", "c", "t", "i", "o", "n", " ", "f", "a", "i", "l", "e", "d">>}
\* a line the client prints, by the form of the message and its tokens
Input(form, a, i, b) == [form |-> form, a |-> a, i |-> i, b |-> b]
Inputs ==
    {Input(f, a, i, b) : f \in {"received", "sent"}, a \in Players, i \in Items, b \in Players}
    \cup {Input(f, a, i, <<>>) : f \in {"checked", "chat"}, a \in Players, i \in Items}
    \cup {Input(f, a, <<>>, <<>>) : f \in {"joined", "left", "goal", "released"}, a \in Players}
    \cup {Input("free", a, <<>>, <<>>) : a \in FreeLines}
InputLine(in) ==
    CASE in.form = "received" -> in.a \o K_received \o in.i \o K_from \o in.b
      [] in.form = "sent" -> in.a \o K_sent \o in.i \o K_to \o in.b
      [] in.form = "checked" -> in.a \o K_checked \o in.i
      [] in.form = "joined" -> in.a \o K_has_joined
      [] in.form = "left" -> in.a \o K_has_left
      [] in.form = "goal" -> in.a \o K_completed
      [] in.form = "released" -> in.a \o K_has_released
      [] in.form = "chat" -> <<"[">> \o in.i \o K_close_bracket \o in.a \o K_colon \o in.i
      [] OTHER -> in.a
NoInput == Input("free", <<>>, <<>>, <<>>)

\* ------------------------------------------------------------ configuration
\* the ticker slots: the text element, then image_sources in list order
Slots == <<"text", "player", "event", "item", "location">>
ImageSlots == <<"player", "event", "item", "location">>
None == <<>>
Some(x) == <<x>>

\* default_config of load_config
DefaultTickerConfig ==
    [text |-> "TickerText", player |-> "TickerPlayerImage", event |-> "TickerEventImage",
     item |-> "TickerItemImage", location |-> "TickerLocationImage"]
\* a text_template is a sequence of pieces: literal text and {field} placeholders
Lit(text) == [kind |-> "lit", name |-> text]
Field(name) == [kind |-> "field", name |-> name]
TextUpdate(source_name) ==
    [type |-> "text_update", source_name |-> source_name, text_template |-> <<Field("text")>>]
DefaultObsActions ==
    [item_received |-> TextUpdate("LastItemReceived"),
     item_sent |-> TextUpdate("LastItemSent"),
     location_checked |-> TextUpdate("LastLocationChecked"),
     player_joined |-> TextUpdate("PlayerStatus"),
     player_left |-> TextUpdate("PlayerStatus"),
     goal_completed |-> [type |-> "scene_switch", scene_name |-> "GoalCompleted"],
     hint |-> TextUpdate("LastHint"),
     chat |-> TextUpdate("LastChatMessage"),
     server_message |-> TextUpdate("ServerMessage")]
DefaultConfig ==
    [enable_animations |-> TRUE,
     scene_name |-> "Main Stream",
     text_end_x |-> None,
     enable_celebrations |-> TRUE,
     celebration_scene |-> "GoalCompleted",
     ticker_config |-> DefaultTickerConfig,
     obs_actions |-> DefaultObsActions]

\* user documents; deep_merge lays them over the defaults key by key
UserObsActions ==
    [goal_completed |-> [type |-> "source_visibility", scene_name |-> "Main Stream",
                         source_name |-> "GoalBanner"],
     raw_message |-> [type |-> "scene_switch", scene_name |-> "Main Stream"]]
\* an action table using every action type of the protocol-client bridge
ClientObsActions ==
    [location_checked |->
         [type |-> "text_update", source_name |-> "LastLocationChecked",
          text_template |-> <<Field("player_name"), Lit(" found "), Field("location_name")>>],
     global_chat |-> TextUpdate("LastChatMessage"),
     room_update |-> TextUpdate("RoomStatus"),
     goal_completed |-> [type |-> "filter_toggle", source_name |-> "Main Camera",
                         filter_name |-> "Glow"],
     room_info |-> [type |-> "media_restart", source_name |-> "Jingle"],
     server_connected |-> [type |-> "source_visibility", scene_name |-> "Main Stream",
                           source_name |-> "ConnectedBanner"],
     data_package_updated |-> [type |-> "scene_switch", scene_name |-> "Main Stream"]]
\* the configurations a run may load, by the config.json that produces them
ConfigTable ==
    [default |-> DefaultConfig,
     static |-> [DefaultConfig EXCEPT !.enable_animations = FALSE],
     user |-> [DefaultConfig EXCEPT !.text_end_x = Some(200), !.enable_celebrations = FALSE,
                                    !.ticker_config.event = "",
                                    !.ticker_config.location = "",
                                    !.obs_actions = UserObsActions @@ DefaultObsActions],
     shared |-> [DefaultConfig EXCEPT !.text_end_x = Some(200),
                                      !.ticker_config.player = "",
                                      !.ticker_config.event = "",
                                      !.ticker_config.location = "TickerItemImage"],
     client |-> [DefaultConfig EXCEPT !.obs_actions = ClientObsActions @@ DefaultObsActions]]
\* the configurations the subprocess bridge, resp. the protocol-client bridge, is run with
StandaloneFiles == {"default", "static", "user", "shared"}
ClientFiles == {"default", "client"}
Configs == {ConfigTable[f] : f \in DOMAIN ConfigTable}

\* ------------------------------------------------------------- image lookup
\* the PNG files under images/ (file stems); no players/default_player.png and
\* no locations/default_location.png, but an items/default_item.png
PlayerFiles == {<<"a", "l">>}
EventFiles == {"item_received", "goal_completed"}
ItemFiles == {<<"d", "e", "f", "a", "u", "l", "t", "_", "i", "t", "e", "m">>}
LocationFiles == {<<"C", "a", "v", "e">>}
default_player == <<"d", "e", "f", "a", "u", "l", "t", "_", "p", "l", "a", "y", "e", "r">>
default_item == <<"d", "e", "f", "a", "u", "l", "t", "_", "i", "t", "e", "m">>
default_location == <<"d", "e", "f", "a", "u", "l", "t", "_", "l", "o", "c", "a", "t", "i", "o", "n">>

\* re.sub(r'[^\w\-_\.]', '_', name) over the characters the lines use
Unsafe == {" ", "!", ":", "(", ")", "[", "]", ESC, PARTY, BULB}
SafeName(name) == [i \in 1..Len(name) |-> IF name[i] \in Unsafe THEN "_" ELSE name[i]]
NoPath == [found |-> FALSE]
Path(dir, stem) == [found |-> TRUE, dir |-> dir, stem |-> stem]
NamedImage(dir, files, name, default) ==
    IF SafeName(name) \in files THEN Path(dir, SafeName(name))
    ELSE IF Lower(SafeName(name)) \in files THEN Path(dir, Lower(SafeName(name)))
    ELSE IF default \in files THEN Path(dir, default)
    ELSE NoPath
get_player_image(player_name) == NamedImage("players", PlayerFiles, player_name, default_player)
get_item_image(item_name) == NamedImage("items", ItemFiles, item_name, default_item)
get_location_image(location_name) ==
    NamedImage("locations", LocationFiles, location_name, default_location)
get_event_image(event_type) ==
    IF event_type \in EventFiles THEN Path("events", event_type) ELSE NoPath

\* event_data.get('event_type', ''): a raw_message carries no event_type
EventTypeOf(event_data) ==
    IF "event_type" \in DOMAIN event_data THEN event_data.event_type ELSE ""

\* update_ticker_content: whether the content step issues a set_input_settings
\* call for the slot (the text always; an image when its name is carried and a
\* path resolves; the location only when no item_name is carried)
update_ticker_content(slot, event_data) ==
    CASE slot = "text" -> TRUE
      [] slot = "player" -> /\ "player_name" \in DOMAIN event_data
                            /\ get_player_image(event_data.player_name).found
      [] slot = "event" -> get_event_image(EventTypeOf(event_data)).found
      [] slot = "item" -> /\ "item_name" \in DOMAIN event_data
                          /\ get_item_image(event_data.item_name).found
      [] slot = "location" -> /\ "item_name" \notin DOMAIN event_data
                              /\ "location_name" \in DOMAIN event_data
                              /\ get_location_image(event_data.location_name).found

\* ------------------------------------------------------------------- state
VARIABLES
    config_file,    \* the config.json the run loaded (a key of ConfigTable)
    obs_client,     \* whether connect_obs attached a control-surface client
    running,        \* self.running
    proc,           \* the client process: "none", "running" or "exited" (poll())
    stdout_open,    \* whether the client still holds its stdout open
    exitLog,        \* what run() did to the external handles on its way out
    a_fn,           \* the animation coroutine followed: "slide", "pop" or "none"
    a_config,       \* the animation_config it was given
    a_steps,        \* its steps argument
    a_step,         \* the step its loop is at
    a_log,          \* its set-transform calls and sleeps, in order
    t_config,       \* the ticker source names and text_start_x a ticker update runs with
    t_event,        \* the event_data of that update
    t_scene,        \* the sources that are items of the scene
    t_elements,     \* the control surface: offset, scale and content of each source
    t_phase,        \* how far the update is: "idle", "reset", "content", "sliding"
    t_resets,       \* RESET steps run in a row, no other step between
    t_first,        \* the elements as the first RESET of the row left them
    t_failed,       \* the slots whose call failed in the first RESET of the row
    m_config,       \* default_config of load_config, merged in place
    m_user,         \* the document json.load returned
    m_merges,       \* how many times the document has been merged in
    m_once,         \* default_config as the first merge left it
    pending,        \* lines left unread in its stdout pipe when it exited
    pc,             \* the position of the ingestion coroutine
    lineNo,         \* lines read so far; the line being processed
    cur_line,       \* the line being processed, as read (<<>>: none, or no event)
    idx,            \* the slot a RESET or content loop is at
    tasks,          \* the animation tasks created and not yet joined
    nfail,          \* control-surface calls that failed for the current event
    failed,         \* the failed ticker and celebration-text calls of the current event
    issued,         \* the successful ticker calls of the current event
    ownerLog,       \* the line each call was made for, repeats merged
    phaseLog,       \* the phase of each call of the current event, repeats merged
    sceneLog,       \* the set-active-scene calls of the current event
    current_scene,  \* the active scene of the control surface
    matched,        \* the lines that produced an event, in reading order
    actionLog,      \* the calls of the configured action of the current event
    actionFailedAt, \* the lines whose configured action had a failing call
    arrived,        \* packets the server has delivered to on_package
    ready,          \* the packet tasks of the event loop, in scheduling order
    clientCalls,    \* the control-surface calls of the protocol-client bridge
    p_input,        \* the line handed to the parser, by form and tokens
    p_runs,         \* how many times the reading loop has processed that line
    p_events,       \* the events those runs handed to trigger_obs_event
    slot_info,      \* the roster attribute of the client context, when it has one
    connected_players, \* self.connected_players
    item_names,     \* the item tables of the client context, when it has them
    location_names, \* the location tables of the client context, when it has them
    jsontotextparser, \* whether the client context has a jsontotextparser
    packaged,       \* whether a DataPackage packet has been handled
    name_op         \* the last name operation of the client context and its result

vars == <<config_file, obs_client, running, proc, pending, pc, lineNo, cur_line, idx,
          tasks, nfail, failed, issued, ownerLog, phaseLog, sceneLog, current_scene,
          matched, actionLog, actionFailedAt, arrived, ready, clientCalls,
          p_input, p_runs, p_events, slot_info, connected_players, item_names,
          location_names, jsontotextparser, packaged, name_op, stdout_open, exitLog,
          a_fn, a_config, a_steps, a_step, a_log,
          t_config, t_event, t_scene, t_elements, t_phase, t_resets, t_first, t_failed,
          m_config, m_user, m_merges, m_once>>
clientVars == <<arrived, ready, clientCalls>>
parseVars == <<p_input, p_runs, p_events>>
tableVars == <<slot_info, item_names, location_names, jsontotextparser>>
nameVars == <<tableVars, connected_players, packaged, name_op>>
exitVars == <<stdout_open, exitLog>>
curveVars == <<a_fn, a_config, a_steps, a_step, a_log>>
tickerVars == <<t_config, t_event, t_scene, t_elements, t_phase, t_resets, t_first, t_failed>>
mergeVars == <<m_config, m_user, m_merges, m_once>>
fixedVars == <<config_file, obs_client, clientVars, parseVars, nameVars, curveVars, tickerVars,
               mergeVars>>
envVars == <<fixedVars, running, exitVars>>

\* a name operation: the resolver or handler run, the id or annotated-text
\* data it was given, whether a DataPackage had been handled, the text returned
NameOp(op, id, data, result) ==
    [op |-> op, id |-> id, data |-> data, after |-> packaged, result |-> result]
NoOp == [op |-> "none", id |-> 0, data |-> <<>>, after |-> FALSE, result |-> <<>>]
\* the client context as the specifications of the other parts leave it
NamesIdle ==
    /\ slot_info = None
    /\ connected_players = <<>>
    /\ item_names = None
    /\ location_names = None
    /\ jsontotextparser = FALSE
    /\ packaged = FALSE
    /\ name_op = NoOp
\* the configuration documents as the specifications of the other parts leave them
MergeIdle ==
    /\ m_config = <<>>
    /\ m_user = <<>>
    /\ m_merges = 0
    /\ m_once = <<>>
\* the ticker elements as the specifications of the other parts leave them
TickerIdle ==
    /\ t_config = <<>>
    /\ t_event = <<>>
    /\ t_scene = {}
    /\ t_elements = <<>>
    /\ t_phase = "idle"
    /\ t_resets = 0
    /\ t_first = <<>>
    /\ t_failed = {}
\* the external handles as the specifications of the other parts leave them
ExitIdle ==
    /\ stdout_open = TRUE
    /\ exitLog = <<>>
    /\ a_fn = "none"
    /\ a_config = <<>>
    /\ a_steps = 1
    /\ a_step = 0
    /\ a_log = <<>>
    /\ TickerIdle
    /\ MergeIdle
pipeVars == <<proc, pending>>
actVars == <<actionLog, actionFailedAt>>

\* the merged configuration of the run
config == ConfigTable[config_file]
\* the event of the line being processed (NoEvent: none)
cur == IF cur_line = <<>> THEN NoEvent ELSE Events[cur_line]

\* the text element is always driven; an image element only when it is named
Named(slot) == slot = "text" \/ config.ticker_config[slot] # ""

Call(phase, slot, step) == [phase |-> phase, slot |-> slot, step |-> step]
AppendNew(log, x) == IF log # <<>> /\ log[Len(log)] = x THEN log ELSE Append(log, x)
\* the outcomes one control-surface call may have
Outcomes == IF nfail < MaxFailures THEN {"ok", "fail"} ELSE {"ok"}

Init ==
    /\ config_file \in StandaloneFiles
    /\ obs_client \in BOOLEAN
    /\ running = FALSE
    /\ proc = "none"
    /\ pending = 0
    /\ pc = "start"
    /\ lineNo = 0
    /\ cur_line = <<>>
    /\ idx = 1
    /\ tasks = {}
    /\ nfail = 0
    /\ failed = {}
    /\ issued = {}
    /\ ownerLog = <<>>
    /\ phaseLog = <<>>
    /\ sceneLog = <<>>
    /\ current_scene = "Main Stream"
    /\ matched = <<>>
    /\ actionLog = <<>>
    /\ actionFailedAt = {}
    /\ arrived = 0
    /\ ready = <<>>
    /\ clientCalls = <<>>
    /\ p_input = NoInput
    /\ p_runs = 0
    /\ p_events = <<>>
    /\ NamesIdle
    /\ ExitIdle

\* ----------------------------------------------------------------- run()
\* run() after connect_obs: start_archipelago_client either leaves a running
\* client process, and self.running is set, or raises, and run() returns False
start_archipelago_client ==
    /\ pc = "start"
    /\ \E started \in BOOLEAN :
         IF started
         THEN /\ proc' = "running"
              /\ running' = TRUE
              /\ pc' = "loop"
         ELSE /\ pc' = "returned"
              /\ UNCHANGED <<proc, running>>
    /\ UNCHANGED <<fixedVars, exitVars, actVars, pending, lineNo, cur_line, idx, tasks, nfail,
                   failed, issued, ownerLog, phaseLog, sceneLog, current_scene, matched>>

\* the ingestion loop has been left
LoopLeft == pc \in {"stopped", "failed", "crashed_out", "done"}

\* cleanup(), from the finally of run(): the stop flag is cleared, the client
\* process terminated and waited for (killed after five seconds), and the
\* control-surface client, when there is one, disconnected; a disconnect that
\* raises leaves run() for the handlers of main()
cleanup ==
    /\ pc \in {"stopped", "failed"}
    /\ running' = FALSE
    /\ proc' = "exited"
    /\ exitLog' = exitLog \o <<"terminate">>
                          \o (IF obs_client THEN <<"disconnect">> ELSE <<>>)
    /\ \E raised \in IF obs_client THEN BOOLEAN ELSE {FALSE} :
         pc' = IF raised THEN "crashed_out" ELSE "done"
    /\ UNCHANGED <<fixedVars, stdout_open, actVars, pending, lineNo, cur_line, idx, tasks, nfail,
                   failed, issued, ownerLog, phaseLog, sceneLog, current_scene, matched>>

\* main(): except Exception: await bridge.cleanup(); self.obs_client is still
\* set, so the client is disconnected again (whether or not it raises again,
\* the program ends)
main_handler ==
    /\ pc = "crashed_out"
    /\ exitLog' = exitLog \o <<"terminate">>
                          \o (IF obs_client THEN <<"disconnect">> ELSE <<>>)
    /\ pc' = "done"
    /\ UNCHANGED <<fixedVars, running, stdout_open, actVars, pipeVars, lineNo, cur_line, idx,
                   tasks, nfail, failed, issued, ownerLog, phaseLog, sceneLog, current_scene,
                   matched>>

\* ------------------------------------------------------- the client process
\* The bridge observes the client process at the loop test (poll) and at
\* readline only.  A line the client prints is modelled where readline returns
\* it.  An exit while readline waits leaves nothing unread; an exit seen by
\* the loop test may leave printed lines unread in the pipe (an exit with
\* lines still arriving at readline is, to the bridge, the same run as one
\* where the first of them is read before the exit).
ClientExits ==
    /\ pc \in {"loop", "readline"}
    /\ proc = "running"
    /\ proc' = "exited"
    /\ pending' \in IF pc = "loop" /\ stdout_open THEN 0..(MaxLines - lineNo) ELSE {0}
    /\ UNCHANGED <<envVars, actVars, pc, lineNo, cur_line, idx, tasks, nfail, failed, issued,
                   ownerLog, phaseLog, sceneLog, current_scene, matched>>

\* the client closes its stdout and goes on running
ClientClosesStdout ==
    /\ pc \in {"loop", "readline"}
    /\ proc = "running"
    /\ stdout_open
    /\ stdout_open' = FALSE
    /\ UNCHANGED <<fixedVars, running, exitLog, actVars, pipeVars, pc, lineNo, cur_line, idx, tasks,
                   nfail, failed, issued, ownerLog, phaseLog, sceneLog, current_scene, matched>>

\* --------------------------------------------------------- update_ticker_display
\* faulty variants of the phase order: content before RESET; animation regardless
\* of enable_animations
ContentBeforeReset ==
    IF config.enable_animations THEN <<"content", "reset", "animate">> ELSE <<"content">>
AlwaysAnimated == <<"reset", "content", "animate">>
\* the phases of one ticker update, in the order update_ticker_display runs them
update_ticker_display ==
    IF config.enable_animations THEN <<"reset", "content", "animate">> ELSE <<"content">>
\* where the coroutine goes when the ticker update has returned
AfterTicker == IF cur.type = "goal_completed" THEN "celebrate" ELSE "action"
PhaseAfter(phase) ==
    LET k == CHOOSE i \in 1..Len(update_ticker_display) : update_ticker_display[i] = phase
    IN IF k < Len(update_ticker_display) THEN update_ticker_display[k + 1] ELSE AfterTicker

\* while self.running and self.archipelago_process.poll() is None
LoopTest ==
    /\ pc = "loop"
    /\ pc' = IF running /\ proc = "running" THEN "readline" ELSE "stopped"
    /\ UNCHANGED <<envVars, actVars, pipeVars, lineNo, cur_line, idx, tasks, nfail, failed, issued,
                   ownerLog, phaseLog, sceneLog, current_scene, matched>>

\* faulty variant: trigger_obs_event goes on without a client
NoObsIgnored == FALSE
\* if not self.obs_client: logger.info("[NO OBS] ..."); return
NoObs == ~obs_client

\* the client prints a line and readline returns it; strip,
\* strip_ansi_codes, parse_and_trigger_events up to the first step of
\* trigger_obs_event; without a client the event is logged and the loop goes on
ReadLine ==
    /\ pc = "readline"
    /\ proc = "running"
    /\ stdout_open
    /\ lineNo < MaxLines
    /\ \E raw \in Lines :
         LET ev == Events[raw]
         IN /\ lineNo' = lineNo + 1
            /\ IF ev.type = "none" \/ NoObs
               THEN /\ pc' = "loop"
                    /\ cur_line' = <<>>
                    /\ matched' = IF ev.type = "none" THEN matched
                                  ELSE Append(matched, lineNo + 1)
                    /\ UNCHANGED <<idx, nfail, failed, issued, phaseLog, sceneLog, actionLog>>
               ELSE /\ cur_line' = raw
                    /\ nfail' = 0
                    /\ pc' = update_ticker_display[1]
                    /\ idx' = 1
                    /\ failed' = {}
                    /\ issued' = {}
                    /\ phaseLog' = <<>>
                    /\ sceneLog' = <<>>
                    /\ actionLog' = <<>>
                    /\ matched' = Append(matched, lineNo + 1)
    /\ UNCHANGED <<envVars, actionFailedAt, pipeVars, tasks, ownerLog, current_scene>>

\* the client prints a line that does not decode (the pipe is read as text,
\* universal_newlines=True) and readline raises; the handler of
\* process_archipelago_output encloses the whole while loop, so the exception
\* is logged and the loop is left
ReadRaises ==
    /\ pc = "readline"
    /\ proc = "running"
    /\ stdout_open
    /\ lineNo < MaxLines
    /\ lineNo' = lineNo + 1
    /\ pc' = "failed"
    /\ UNCHANGED <<envVars, actVars, pipeVars, cur_line, idx, tasks, nfail, failed, issued,
                   ownerLog, phaseLog, sceneLog, current_scene, matched>>

\* readline at end of file returns '' and the loop continues
ReadEof ==
    /\ pc = "readline"
    /\ proc = "exited" \/ ~stdout_open
    /\ pc' = "loop"
    /\ UNCHANGED <<envVars, actVars, pipeVars, lineNo, cur_line, idx, tasks, nfail, failed, issued,
                   ownerLog, phaseLog, sceneLog, current_scene, matched>>

\* faulty variant: a failed RESET call propagates out of the ticker update
ResetCallUncaught(i, o) ==
    IF o = "fail" THEN [pc |-> "crashed", idx |-> i]
    ELSE IF i < Len(Slots) THEN [pc |-> "reset", idx |-> i + 1]
    ELSE [pc |-> PhaseAfter("reset"), idx |-> 1]
\* where the RESET loop goes after the call for slot i ended with outcome o:
\* set_source_position and set_source_scale catch every exception
AfterResetCall(i, o) ==
    IF i < Len(Slots) THEN [pc |-> "reset", idx |-> i + 1]
    ELSE [pc |-> PhaseAfter("reset"), idx |-> 1]

\* reset_ticker_positions, one slot per step: the text offset to the start
\* coordinate, each named image element to scale 0
ResetStep ==
    /\ pc = "reset"
    /\ LET slot == Slots[idx]
       IN \E o \in Outcomes :
            /\ IF Named(slot)
               THEN /\ issued' = IF o = "ok" THEN issued \cup {Call("reset", slot, 0)}
                                 ELSE issued
                    /\ failed' = IF o = "fail" THEN failed \cup {Call("reset", slot, 0)}
                                 ELSE failed
                    /\ nfail' = IF o = "fail" THEN nfail + 1 ELSE nfail
                    /\ ownerLog' = AppendNew(ownerLog, lineNo)
                    /\ phaseLog' = AppendNew(phaseLog, "reset")
               ELSE /\ o = "ok"
                    /\ UNCHANGED <<issued, failed, nfail, ownerLog, phaseLog>>
            /\ pc' = AfterResetCall(idx, o).pc
            /\ idx' = AfterResetCall(idx, o).idx
    /\ UNCHANGED <<envVars, actVars, pipeVars, lineNo, cur_line, tasks, sceneLog, current_scene, matched>>

\* where the content loop goes after the call for slot i ended with outcome o:
\* every set_input_settings call of update_ticker_content has its own handler
AfterContentCall(i, o) ==
    IF i < Len(Slots) THEN [pc |-> "content", idx |-> i + 1]
    ELSE [pc |-> PhaseAfter("content"), idx |-> 1]

\* update_ticker_content, one slot per step
ContentStep ==
    /\ pc = "content"
    /\ LET slot == Slots[idx]
       IN \E o \in Outcomes :
            /\ IF update_ticker_content(slot, cur.data)
               THEN /\ issued' = IF o = "ok" THEN issued \cup {Call("content", slot, 0)}
                                 ELSE issued
                    /\ failed' = IF o = "fail" THEN failed \cup {Call("content", slot, 0)}
                                 ELSE failed
                    /\ nfail' = IF o = "fail" THEN nfail + 1 ELSE nfail
                    /\ ownerLog' = AppendNew(ownerLog, lineNo)
                    /\ phaseLog' = AppendNew(phaseLog, "content")
               ELSE /\ o = "ok"
                    /\ UNCHANGED <<issued, failed, nfail, ownerLog, phaseLog>>
            /\ pc' = AfterContentCall(idx, o).pc
            /\ idx' = AfterContentCall(idx, o).idx
    /\ UNCHANGED <<envVars, actVars, pipeVars, lineNo, cur_line, tasks, sceneLog, current_scene, matched>>

\* ------------------------------------------- animate_ticker_to_final_positions
\* faulty variant: every pop animates the first image element
FirstImageSource(slot) ==
    IF slot = "text" THEN config.ticker_config[slot] ELSE config.ticker_config["player"]
\* the element a slot's task animates
TaskSource(slot) == config.ticker_config[slot]
\* the tasks create_task makes: the text slide, then one pop per named image
\* source, in list order (ord is the creation order)
NewTasks ==
    {[slot |-> Slots[k], owner |-> lineNo, ord |-> k, st |-> "new", step |-> 0] :
        k \in {i \in 1..Len(Slots) : Named(Slots[i])}}

\* set_current_program_scene(scene_name), then the tasks are created
Animate ==
    /\ pc = "animate"
    /\ \E o \in Outcomes :
         /\ sceneLog' = Append(sceneLog, [scene |-> config.scene_name, by |-> "animate",
                                          ok |-> o = "ok"])
         /\ current_scene' = IF o = "ok" THEN config.scene_name ELSE current_scene
         /\ nfail' = IF o = "fail" THEN nfail + 1 ELSE nfail
    /\ ownerLog' = AppendNew(ownerLog, lineNo)
    /\ phaseLog' = AppendNew(phaseLog, "scene")
    /\ tasks' = tasks \cup NewTasks
    /\ pc' = "join"
    /\ UNCHANGED <<envVars, actVars, pipeVars, lineNo, cur_line, idx, failed, issued, matched>>

Finished(t) == t.st \in {"done", "aborted"}
\* faulty variants of the join: fire and forget; only the text task awaited
TasksNotJoined == TRUE
TasksJoinedTextOnly == \A t \in tasks : (t.owner = lineNo /\ t.slot = "text") => Finished(t)
\* await text_task, then asyncio.gather(*image_tasks)
TasksJoined == \A t \in tasks : t.owner = lineNo => Finished(t)

Join ==
    /\ pc = "join"
    /\ TasksJoined
    /\ tasks' = {t \in tasks : ~Finished(t)}
    /\ pc' = PhaseAfter("animate")
    /\ UNCHANGED <<envVars, actVars, pipeVars, lineNo, cur_line, idx, nfail, failed, issued, ownerLog,
                   phaseLog, sceneLog, current_scene, matched>>

\* the task after its set-transform call of step k ended with outcome o: the
\* try block of animate_text_slide_fixed / animate_image_pop_fixed encloses the
\* whole step loop
AfterStepCall(t, k, o) ==
    IF o = "fail" THEN [t EXCEPT !.st = "aborted"]
    ELSE IF k < Steps THEN [t EXCEPT !.st = "sleep", !.step = k + 1]
    ELSE [t EXCEPT !.st = "done"]

\* float(animation_config.get('text_end_x', 200)) raises on None
SlideParametersOk(t) == t.slot # "text" \/ config.text_end_x # None

\* the first stretch of a task up to its first sleep: get_scene_item_list, the
\* parameters, and the set-transform call of step 0
BeginAnimation(t) ==
    \E found \in Outcomes :
      IF found = "fail"
      THEN /\ tasks' = (tasks \ {t}) \cup {[t EXCEPT !.st = "aborted"]}
           /\ failed' = failed \cup {Call("animate", t.slot, -1)}
           /\ nfail' = nfail + 1
           /\ ownerLog' = AppendNew(ownerLog, t.owner)
           /\ phaseLog' = AppendNew(phaseLog, "animate")
           /\ UNCHANGED issued
      ELSE IF ~SlideParametersOk(t)
      THEN /\ tasks' = (tasks \ {t}) \cup {[t EXCEPT !.st = "aborted"]}
           /\ ownerLog' = AppendNew(ownerLog, t.owner)
           /\ phaseLog' = AppendNew(phaseLog, "animate")
           /\ UNCHANGED <<failed, nfail, issued>>
      ELSE \E o \in IF nfail < MaxFailures THEN {"ok", "fail"} ELSE {"ok"} :
             /\ tasks' = (tasks \ {t}) \cup {AfterStepCall(t, 0, o)}
             /\ issued' = IF o = "ok" THEN issued \cup {Call("animate", t.slot, 0)}
                          ELSE issued
             /\ failed' = IF o = "fail" THEN failed \cup {Call("animate", t.slot, 0)}
                          ELSE failed
             /\ nfail' = IF o = "fail" THEN nfail + 1 ELSE nfail
             /\ ownerLog' = AppendNew(ownerLog, t.owner)
             /\ phaseLog' = AppendNew(phaseLog, "animate")

\* the event loop runs the first step of each new task in creation order,
\* before any timer of an earlier task comes due
FirstNew(t) == t.st = "new" /\ \A u \in tasks : u.st = "new" => t.ord <= u.ord

\* the first step of a task: a pop with a stagger delay (i * 0.15 > 0) sleeps,
\* the text slide and the first pop begin at once
TaskStart ==
    /\ \E t \in tasks :
         /\ FirstNew(t)
         /\ IF t.ord > 2
            THEN /\ tasks' = (tasks \ {t}) \cup {[t EXCEPT !.st = "delay"]}
                 /\ UNCHANGED <<failed, nfail, issued, ownerLog, phaseLog>>
            ELSE BeginAnimation(t)
    /\ UNCHANGED <<envVars, actVars, pipeVars, pc, lineNo, cur_line, idx, sceneLog, current_scene, matched>>

\* a pop wakes from its stagger delay
TaskWake ==
    /\ \A u \in tasks : u.st # "new"
    /\ \E t \in tasks :
         /\ t.st = "delay"
         /\ BeginAnimation(t)
    /\ UNCHANGED <<envVars, actVars, pipeVars, pc, lineNo, cur_line, idx, sceneLog, current_scene, matched>>

\* a task wakes from sleep(step_delay) and issues the set-transform of its step
TaskStep ==
    /\ \A u \in tasks : u.st # "new"
    /\ \E t \in tasks :
         /\ t.st = "sleep"
         /\ \E o \in Outcomes :
              /\ tasks' = (tasks \ {t}) \cup {AfterStepCall(t, t.step, o)}
              /\ issued' = IF o = "ok" THEN issued \cup {Call("animate", t.slot, t.step)}
                           ELSE issued
              /\ failed' = IF o = "fail" THEN failed \cup {Call("animate", t.slot, t.step)}
                           ELSE failed
              /\ nfail' = IF o = "fail" THEN nfail + 1 ELSE nfail
              /\ ownerLog' = AppendNew(ownerLog, t.owner)
              /\ phaseLog' = AppendNew(phaseLog, "animate")
    /\ UNCHANGED <<envVars, actVars, pipeVars, pc, lineNo, cur_line, idx, sceneLog, current_scene, matched>>

\* ------------------------------------------ handle_goal_completion_celebration
\* faulty variant: a failed celebration text update ends the celebration
CelebrationTextUncaught(o) == IF o = "fail" THEN "action" ELSE "celeb_switch"
\* where the celebration goes after its optional text update ended with
\* outcome o (the inner handler passes)
AfterCelebrationText(o) == "celeb_switch"

Celebrate ==
    /\ pc = "celebrate"
    /\ IF ~config.enable_celebrations
       THEN /\ pc' = "action"
            /\ UNCHANGED <<nfail, failed, ownerLog, phaseLog>>
       ELSE \E o \in Outcomes :
              /\ nfail' = IF o = "fail" THEN nfail + 1 ELSE nfail
              /\ failed' = IF o = "fail"
                           THEN failed \cup {Call("celebration", "celebration_text", 0)}
                           ELSE failed
              /\ ownerLog' = AppendNew(ownerLog, lineNo)
              /\ phaseLog' = AppendNew(phaseLog, "celebration")
              /\ pc' = AfterCelebrationText(o)
    /\ UNCHANGED <<envVars, actVars, pipeVars, lineNo, cur_line, idx, tasks, issued, sceneLog,
                   current_scene, matched>>

\* set_current_program_scene(celebration_scene); a failure ends the celebration
CelebrationSwitch ==
    /\ pc = "celeb_switch"
    /\ \E o \in Outcomes :
         /\ sceneLog' = Append(sceneLog, [scene |-> config.celebration_scene,
                                          by |-> "celebration", ok |-> o = "ok"])
         /\ current_scene' = IF o = "ok" THEN config.celebration_scene ELSE current_scene
         /\ nfail' = IF o = "fail" THEN nfail + 1 ELSE nfail
         /\ pc' = IF o = "ok" THEN "celeb_pause" ELSE "action"
    /\ ownerLog' = AppendNew(ownerLog, lineNo)
    /\ phaseLog' = AppendNew(phaseLog, "celebration")
    /\ UNCHANGED <<envVars, actVars, pipeVars, lineNo, cur_line, idx, tasks, failed, issued, matched>>

\* asyncio.sleep(celebration_duration)
CelebrationPause ==
    /\ pc = "celeb_pause"
    /\ pc' = "celeb_return"
    /\ UNCHANGED <<envVars, actVars, pipeVars, lineNo, cur_line, idx, tasks, nfail, failed, issued,
                   ownerLog, phaseLog, sceneLog, current_scene, matched>>

\* set_current_program_scene(main_scene)
CelebrationReturn ==
    /\ pc = "celeb_return"
    /\ \E o \in Outcomes :
         /\ sceneLog' = Append(sceneLog, [scene |-> config.scene_name,
                                          by |-> "celebration", ok |-> o = "ok"])
         /\ current_scene' = IF o = "ok" THEN config.scene_name ELSE current_scene
         /\ nfail' = IF o = "fail" THEN nfail + 1 ELSE nfail
    /\ pc' = "action"
    /\ ownerLog' = AppendNew(ownerLog, lineNo)
    /\ phaseLog' = AppendNew(phaseLog, "celebration")
    /\ UNCHANGED <<envVars, actVars, pipeVars, lineNo, cur_line, idx, tasks, failed, issued, matched>>

\* ------------------------------------------------ the configured obs_actions
NoAction == [type |-> "none"]
\* faulty variant: an event type without an entry gets a default action
ActionDefaulted(event_type) ==
    IF event_type \in DOMAIN config.obs_actions THEN config.obs_actions[event_type]
    ELSE [type |-> "scene_switch", scene_name |-> "Main Stream"]
\* obs_actions[event_type] when event_type in obs_actions
action_config(event_type) ==
    IF event_type \in DOMAIN config.obs_actions THEN config.obs_actions[event_type]
    ELSE NoAction
ActionCall(call, target, st) == [call |-> call, target |-> target, st |-> st]
AnyFailed(calls) == \E k \in DOMAIN calls : calls[k].st = "fail"
\* faulty variant: a failed call of the configured action ends the reading loop
ActionUncaught(fail) == IF fail THEN "crashed" ELSE "loop"
\* where the coroutine goes after the configured action: its failures are
\* caught inside trigger_obs_event
AfterAction(fail) == "loop"
\* the bookkeeping of the action step, given the calls it made
ActionDone(calls) ==
    /\ actionLog' = calls
    /\ nfail' = IF AnyFailed(calls) THEN nfail + 1 ELSE nfail
    /\ actionFailedAt' = IF AnyFailed(calls) THEN actionFailedAt \cup {lineNo}
                         ELSE actionFailedAt
    /\ ownerLog' = IF calls # <<>> THEN AppendNew(ownerLog, lineNo) ELSE ownerLog
    /\ phaseLog' = IF calls # <<>> THEN AppendNew(phaseLog, "action") ELSE phaseLog
    /\ pc' = AfterAction(AnyFailed(calls))

\* trigger_obs_event of the standalone bridge acts on scene_switch and
\* source_visibility entries only; every failure is caught
ObsAction ==
    /\ pc = "action"
    /\ LET action == action_config(cur.type)
       IN CASE action.type = "scene_switch" ->
                 \E o \in Outcomes :
                   /\ sceneLog' = Append(sceneLog, [scene |-> action.scene_name,
                                                    by |-> "action", ok |-> o = "ok"])
                   /\ current_scene' = IF o = "ok" THEN action.scene_name ELSE current_scene
                   /\ ActionDone(<<ActionCall("set_current_program_scene",
                                              action.scene_name, o)>>)
            [] action.type = "source_visibility" ->
                 \* get_scene_item_id: found, not found (None) or raising; then
                 \* set_scene_item_enabled only when it was found
                 \E r \in Outcomes \cup {"absent"}, o \in Outcomes :
                   /\ ActionDone(
                        <<ActionCall("get_scene_item_id", action.source_name, r)>>
                        \o IF r = "ok"
                           THEN <<ActionCall("set_scene_item_enabled", action.source_name, o)>>
                           ELSE <<>>)
                   /\ UNCHANGED <<sceneLog, current_scene>>
            [] OTHER ->
                 /\ ActionDone(<<>>)
                 /\ UNCHANGED <<sceneLog, current_scene>>
    /\ UNCHANGED <<envVars, pipeVars, lineNo, cur_line, idx, tasks, failed, issued, matched>>

Next ==
    \/ start_archipelago_client
    \/ ClientExits
    \/ ClientClosesStdout
    \/ LoopTest
    \/ ReadLine
    \/ ReadRaises
    \/ ReadEof
    \/ cleanup
    \/ main_handler
    \/ ResetStep
    \/ ContentStep
    \/ Animate
    \/ TaskStart
    \/ TaskWake
    \/ TaskStep
    \/ Join
    \/ Celebrate
    \/ CelebrationSwitch
    \/ CelebrationPause
    \/ CelebrationReturn
    \/ ObsAction

Spec == Init /\ [][Next]_vars

\* the steps of the bridge's own coroutines; what the client process does
\* (printing a line, closing its stdout, exiting) is left to the client
Bridge ==
    \/ start_archipelago_client
    \/ LoopTest
    \/ ReadEof
    \/ cleanup
    \/ main_handler
    \/ ResetStep
    \/ ContentStep
    \/ Animate
    \/ TaskStart
    \/ TaskWake
    \/ TaskStep
    \/ Join
    \/ Celebrate
    \/ CelebrationSwitch
    \/ CelebrationPause
    \/ CelebrationReturn
    \/ ObsAction
\* the event loop keeps running the bridge: every control-surface call and
\* every sleep returns, and a readline on a closed or exited client returns
SpecLive == Init /\ [][Next]_vars /\ WF_vars(Bridge)

\* ------------------------------------------------ the protocol-client bridge
\* archipelago_obs_bridge.py: on_package makes one task per packet; the task
\* runs handle_package, which triggers the packet's events one after another.
Packet(cmd, n, type) == [cmd |-> cmd, n |-> n, type |-> type, index |-> 0]
\* the items of a ReceivedItems packet of n items, by id: n, n - 1, ..., 1
ItemsOf(n) == [i \in 1..n |-> n + 1 - i]
\* the packets the server may deliver; the largest ReceivedItems batch is a
\* later one of its stream (index 3), the smaller ones start it (index 0)
Packets ==
    {Packet("ReceivedItems", k, "") : k \in 0..(MaxItems - 1)} \cup
    {[Packet("ReceivedItems", MaxItems, "") EXCEPT !.index = 3]} \cup
    {Packet("LocationInfo", 1, ""), Packet("PrintJSON", 0, "Goal"),
     Packet("PrintJSON", 0, "Chat"), Packet("Connected", 0, ""), Packet("RoomInfo", 0, ""),
     Packet("RoomUpdate", 0, ""), Packet("DataPackage", 0, ""), Packet("Bounced", 0, "")}

event_mapping(message_type) ==
    CASE message_type = "ItemSend" -> "global_item_send"
      [] message_type = "ItemCheat" -> "global_item_found"
      [] message_type = "Hint" -> "global_hint"
      [] message_type = "Join" -> "global_player_join"
      [] message_type = "Part" -> "global_player_part"
      [] message_type = "Chat" -> "global_chat"
      [] message_type = "ServerChat" -> "server_chat"
      [] message_type = "Tutorial" -> "tutorial"
      [] message_type = "TagsChanged" -> "tags_changed"
      [] message_type = "CommandResult" -> "command_result"
      [] message_type = "AdminCommandResult" -> "admin_command_result"
      [] message_type = "Goal" -> "goal_completed"
      [] message_type = "Release" -> "player_released"
      [] message_type = "Collect" -> "player_collected"
      [] message_type = "Countdown" -> "countdown"
      [] OTHER -> "unknown_message"

\* the events handle_package triggers for a packet, in order
handle_package(p) ==
    CASE p.cmd = "Connected" -> <<"server_connected">>
      [] p.cmd = "RoomInfo" -> <<"room_info">>
      [] p.cmd = "ReceivedItems" -> [i \in 1..p.n |-> "item_received"]
      [] p.cmd = "LocationInfo" -> [i \in 1..p.n |-> "location_checked"]
      [] p.cmd = "RoomUpdate" -> <<"room_update">>
      [] p.cmd = "PrintJSON" -> <<event_mapping(p.type)>>
      [] p.cmd = "DataPackage" -> <<"data_package_updated">>
      [] OTHER -> <<>>

\* the keys of the event_data each handler passes to trigger_obs_event
ClientEventFields(event_type) ==
    CASE event_type = "server_connected" -> {"player_count", "players", "slot_data"}
      [] event_type = "room_info" ->
           {"seed_name", "permissions", "hint_cost", "location_check_points", "players",
            "version", "forfeit_mode", "remaining_mode"}
      [] event_type = "item_received" ->
           {"receiving_player", "item_name", "location_name", "item_id", "location_id",
            "player_id", "flags", "index"}
      [] event_type = "location_checked" ->
           {"player_name", "item_name", "location_name", "player_id", "item_id",
            "location_id"}
      [] event_type = "data_package_updated" -> {"games", "game_count"}
      [] event_type \in {"room_update", "archipelago_disconnected"} -> {}
      [] OTHER -> {"type", "text", "raw_data"}

\* the value of a field of the event, and str(event_data)
Value(name) == [kind |-> "value", name |-> name]
Repr == [kind |-> "repr", name |-> "event_data"]
\* text_template.format(**event_data); on KeyError the fallback
\* f"{event_type}: {event_data.get('text', str(event_data))}"
FormatText(text_template, event_type, fields) ==
    IF \A k \in DOMAIN text_template :
          text_template[k].kind = "field" => text_template[k].name \in fields
    THEN [k \in DOMAIN text_template |->
             IF text_template[k].kind = "field" THEN Value(text_template[k].name)
             ELSE text_template[k]]
    ELSE <<Lit(event_type), Lit(": "), IF "text" \in fields THEN Value("text") ELSE Repr>>

\* the control-surface call trigger_obs_event issues for one event of packet
\* id, ending with outcome o; every failure is caught
trigger_obs_event(id, event_type, o) ==
    LET action == action_config(event_type)
        call(name, target, value) ==
            <<[packet |-> id, event |-> event_type, call |-> name, target |-> target,
               value |-> value, st |-> o]>>
    IN IF ~obs_client THEN <<>>
       ELSE CASE action.type = "scene_switch" ->
                   call("set_current_program_scene", action.scene_name, <<>>)
              [] action.type = "source_visibility" ->
                   call("set_scene_item_enabled", action.source_name, <<>>)
              [] action.type = "text_update" ->
                   call("set_input_settings", action.source_name,
                        FormatText(action.text_template, event_type,
                                   ClientEventFields(event_type)))
              [] action.type = "filter_toggle" ->
                   call("set_source_filter_enabled", action.source_name, <<>>)
              [] action.type = "media_restart" ->
                   call("trigger_media_input_action", action.source_name, <<>>)
              [] OTHER -> <<>>
\* faulty variant: trigger_obs_event suspends after each event
TriggerYieldsAlways == TRUE
\* whether trigger_obs_event gives the event loop a turn: it awaits nothing,
\* its control-surface calls are synchronous
TriggerYields == FALSE

\* faulty variant: the items are counted from one
ItemIndexFromOne(index, i) == index + i + 1
\* "index": index + i of handle_received_items
ItemIndex(index, i) == index + i
\* the item and index of the event_data of the i-th event (from 0) of packet p
received_item(p, i) ==
    IF p.cmd = "ReceivedItems"
    THEN [item_id |-> ItemsOf(p.n)[i + 1], index |-> ItemIndex(p.index, i)]
    ELSE [item_id |-> 0, index |-> 0]
\* the calls of the k-th event of packet p, each with the event's item and index
TriggerEvent(id, p, events, k, o) ==
    LET calls == trigger_obs_event(id, events[k], o)
    IN [c \in DOMAIN calls |-> calls[c] @@ received_item(p, k - 1)]
RECURSIVE TriggerAll(_, _, _, _, _)
TriggerAll(id, p, events, k, os) ==
    IF k > Len(events) THEN <<>>
    ELSE TriggerEvent(id, p, events, k, os[k]) \o TriggerAll(id, p, events, k + 1, os)
Failures(calls) == Cardinality({k \in DOMAIN calls : calls[k].st = "fail"})

InitClient ==
    /\ config_file \in ClientFiles
    /\ obs_client \in BOOLEAN
    /\ running = TRUE
    /\ proc = "running"
    /\ pending = 0
    /\ pc = "loop"
    /\ ExitIdle
    /\ lineNo = 0
    /\ cur_line = <<>>
    /\ idx = 1
    /\ tasks = {}
    /\ nfail = 0
    /\ failed = {}
    /\ issued = {}
    /\ ownerLog = <<>>
    /\ phaseLog = <<>>
    /\ sceneLog = <<>>
    /\ current_scene = "Main Stream"
    /\ matched = <<>>
    /\ actionLog = <<>>
    /\ actionFailedAt = {}
    /\ arrived = 0
    /\ ready = <<>>
    /\ clientCalls = <<>>
    /\ p_input = NoInput
    /\ p_runs = 0
    /\ p_events = <<>>
    /\ NamesIdle

standaloneVars == <<config_file, obs_client, running, pipeVars, pc, lineNo, cur_line, idx, tasks, nfail,
                    failed, issued, ownerLog, phaseLog, sceneLog, current_scene, matched, actVars,
                    parseVars, nameVars, exitVars, curveVars, tickerVars, mergeVars>>

\* on_package: asyncio.create_task(self.handle_package(cmd, args))
on_package ==
    /\ arrived < MaxPackets
    /\ \E p \in Packets :
         ready' = Append(ready, [id |-> arrived + 1, packet |-> p, done |-> 0])
    /\ arrived' = arrived + 1
    /\ UNCHANGED <<standaloneVars, clientCalls>>

\* the event loop runs the first ready task until it suspends or returns
RunTask ==
    /\ ready # <<>>
    /\ LET t == Head(ready)
           events == handle_package(t.packet)
       IN \E os \in [DOMAIN events -> {"ok", "fail"}] :
            LET calls == IF TriggerYields /\ t.done < Len(events)
                         THEN TriggerEvent(t.id, t.packet, events, t.done + 1, os[t.done + 1])
                         ELSE TriggerAll(t.id, t.packet, events, t.done + 1, os)
            IN /\ Failures(clientCalls \o calls) <= MaxFailures
               /\ clientCalls' = clientCalls \o calls
               /\ ready' = IF TriggerYields /\ t.done < Len(events)
                           THEN Append(Tail(ready), [t EXCEPT !.done = t.done + 1])
                           ELSE Tail(ready)
    /\ UNCHANGED <<standaloneVars, arrived>>

NextClient ==
    \/ on_package
    \/ RunTask

SpecClient == InitClient /\ [][NextClient]_vars

\* ------------------------------------------------------------ line parsing
\* The parser on its own: one line, handed to the reading loop's steps
\* (strip, strip_ansi_codes, parse_and_trigger_events) Runs times over.
InitParse ==
    /\ config_file = "default"
    /\ obs_client = TRUE
    /\ running = TRUE
    /\ proc = "running"
    /\ pending = 0
    /\ pc = "loop"
    /\ ExitIdle
    /\ lineNo = 0
    /\ cur_line = <<>>
    /\ idx = 1
    /\ tasks = {}
    /\ nfail = 0
    /\ failed = {}
    /\ issued = {}
    /\ ownerLog = <<>>
    /\ phaseLog = <<>>
    /\ sceneLog = <<>>
    /\ current_scene = "Main Stream"
    /\ matched = <<>>
    /\ actionLog = <<>>
    /\ actionFailedAt = {}
    /\ arrived = 0
    /\ ready = <<>>
    /\ clientCalls = <<>>
    /\ p_input \in Inputs
    /\ p_runs = 0
    /\ p_events = <<>>
    /\ NamesIdle

ParseLine ==
    /\ p_runs < Runs
    /\ p_runs' = p_runs + 1
    /\ LET ev == process_line(InputLine(p_input))
       IN p_events' = IF ev.type = "none" THEN p_events ELSE Append(p_events, ev)
    /\ UNCHANGED <<config_file, obs_client, running, pipeVars, pc, lineNo, cur_line, idx,
                   tasks, nfail, failed, issued, ownerLog, phaseLog, sceneLog,
                   current_scene, matched, actVars, clientVars, p_input, nameVars,
                   exitVars, curveVars, tickerVars, mergeVars>>

NextParse == ParseLine

SpecParse == InitParse /\ [][NextParse]_vars

\* ------------------------------------------------------------ name tables
\* The name resolution of the protocol-client bridge.  The roster (slot_info),
\* the item and location tables and the jsontotextparser are attributes the
\* client context inherits; the bridge reads them where hasattr finds them
\* and never writes them.
Digits == <<"0", "1", "2", "3", "4", "5", "6", "7", "8", "9">>
\* str(id)
Str(id) == <<Digits[id + 1]>>
Ids == {0, 1, 2}
Slot(name) == [name |-> name]
\* the rosters the context may hold: none, Al, Al and Bo, a renamed Al
SlotInfos ==
    {None, Some(1 :> Slot(<<"Al">>)),
     Some((1 :> Slot(<<"Al">>)) @@ (2 :> Slot(<<"Bo">>))), Some(1 :> Slot(<<"Cy">>))}
\* the tables of two games, in the order the dict holds them
ItemTables ==
    LET a == 1 :> <<"Bow">>
        b == (1 :> <<"Map">>) @@ (2 :> <<"Key">>)
    IN {None, Some(<<>>), Some(<<a>>), Some(<<a, b>>), Some(<<b, a>>)}
LocationTables == {None, Some(<<1 :> <<"Cave">>>>)}
\* the names a DataPackage packet carries: item Key is 2, location Hut is 2
DataPackageItems == 2 :> <<"Key">>
DataPackageLocations == 2 :> <<"Hut">>

\* faulty variant: connected_players is asked before the roster
ResolveConnectedFirst(player_id) ==
    IF player_id \in DOMAIN connected_players THEN connected_players[player_id].name
    ELSE IF slot_info # None /\ player_id \in DOMAIN slot_info[1]
    THEN slot_info[1][player_id].name
    ELSE <<"Player_">> \o Str(player_id)
resolve_player_name(player_id) ==
    IF slot_info # None /\ player_id \in DOMAIN slot_info[1]
    THEN slot_info[1][player_id].name
    ELSE IF player_id \in DOMAIN connected_players THEN connected_players[player_id].name
    ELSE <<"Player_">> \o Str(player_id)

\* for game_items in tables.values(): the first table holding the id
FirstHolding(tables, id) ==
    LET hit == {k \in DOMAIN tables : id \in DOMAIN tables[k]}
    IN IF hit = {} THEN None ELSE Some(tables[SetMin(hit)][id])
resolve_item_name(item_id) ==
    IF item_names # None /\ FirstHolding(item_names[1], item_id) # None
    THEN FirstHolding(item_names[1], item_id)[1]
    ELSE <<"Item_">> \o Str(item_id)
resolve_location_name(location_id) ==
    IF location_names # None /\ FirstHolding(location_names[1], location_id) # None
    THEN FirstHolding(location_names[1], location_id)[1]
    ELSE <<"Location_">> \o Str(location_id)

\* one part of the data of a PrintJSON packet: a dict with a type and a text
\* (an id for the id types), a dict without either key, or a plain string
Part(type, id, text) == [type |-> type, id |-> id, text |-> text]
Parts ==
    {Part("player_id", 1, <<>>), Part("item_id", 2, <<>>), Part("location_id", 1, <<>>),
     Part("text", 0, <<" found ">>), Part("dict", 0, <<>>), Part("str", 0, <<"!">>)}
RECURSIVE SeqsUpTo(_, _)
SeqsUpTo(S, n) ==
    IF n = 0 THEN {<<>>}
    ELSE LET shorter == SeqsUpTo(S, n - 1)
         IN shorter \cup {Append(q, x) : q \in shorter, x \in S}
\* faulty variant: a part that is not a dict is skipped
PartTextDictsOnly(part) ==
    CASE part.type = "player_id" -> resolve_player_name(part.id)
      [] part.type = "item_id" -> resolve_item_name(part.id)
      [] part.type = "location_id" -> resolve_location_name(part.id)
      [] part.type = "str" -> <<>>
      [] OTHER -> part.text
\* what simple_parse_json_data adds to result for one part
PartText(part) ==
    CASE part.type = "player_id" -> resolve_player_name(part.id)
      [] part.type = "item_id" -> resolve_item_name(part.id)
      [] part.type = "location_id" -> resolve_location_name(part.id)
      [] OTHER -> part.text
RECURSIVE simple_parse_json_data(_)
simple_parse_json_data(data) ==
    IF data = <<>> THEN <<>>
    ELSE PartText(Head(data)) \o simple_parse_json_data(Tail(data))
\* the text of the event handle_print_json triggers
parsed_text(data) ==
    IF jsontotextparser THEN <<"jsontotextparser(data)">> ELSE simple_parse_json_data(data)

InitNames ==
    /\ config_file = "default"
    /\ obs_client = TRUE
    /\ running = TRUE
    /\ proc = "running"
    /\ pending = 0
    /\ pc = "loop"
    /\ ExitIdle
    /\ lineNo = 0
    /\ cur_line = <<>>
    /\ idx = 1
    /\ tasks = {}
    /\ nfail = 0
    /\ failed = {}
    /\ issued = {}
    /\ ownerLog = <<>>
    /\ phaseLog = <<>>
    /\ sceneLog = <<>>
    /\ current_scene = "Main Stream"
    /\ matched = <<>>
    /\ actionLog = <<>>
    /\ actionFailedAt = {}
    /\ arrived = 0
    /\ ready = <<>>
    /\ clientCalls = <<>>
    /\ p_input = NoInput
    /\ p_runs = 0
    /\ p_events = <<>>
    /\ slot_info \in SlotInfos
    /\ connected_players = <<>>
    /\ item_names \in ItemTables
    /\ location_names \in LocationTables
    /\ jsontotextparser \in BOOLEAN
    /\ packaged = FALSE
    /\ name_op = NoOp

otherVars == <<config_file, obs_client, running, pipeVars, pc, lineNo, cur_line, idx, tasks,
               nfail, failed, issued, ownerLog, phaseLog, sceneLog, current_scene, matched,
               actVars, clientVars, parseVars, exitVars, curveVars, tickerVars, mergeVars>>

\* The run is followed up to the first resolver or PrintJSON call observed.
\* the client library replaces the roster
SlotInfoChanges ==
    /\ name_op = NoOp
    /\ slot_info' \in SlotInfos \ {slot_info}
    /\ UNCHANGED <<otherVars, item_names, location_names, jsontotextparser,
                   connected_players, packaged, name_op>>

\* handle_connected copies the roster, when there is one, into connected_players
handle_connected ==
    /\ name_op = NoOp
    /\ connected_players' = IF slot_info # None THEN slot_info[1] @@ connected_players
                            ELSE connected_players
    /\ UNCHANGED <<otherVars, tableVars, packaged, name_op>>

\* handle_data_package reports the games of the package and stores nothing
handle_data_package ==
    /\ name_op = NoOp
    /\ packaged' = TRUE
    /\ UNCHANGED <<otherVars, tableVars, connected_players, name_op>>

\* a handler resolves an id
Resolve ==
    /\ name_op = NoOp
    /\ \E id \in Ids :
         \/ name_op' = NameOp("player", id, <<>>, resolve_player_name(id))
         \/ name_op' = NameOp("item", id, <<>>, resolve_item_name(id))
         \/ name_op' = NameOp("location", id, <<>>, resolve_location_name(id))
    /\ UNCHANGED <<otherVars, tableVars, connected_players, packaged>>

handle_print_json ==
    /\ name_op = NoOp
    /\ \E data \in SeqsUpTo(Parts, MaxParts) :
         name_op' = NameOp("print_json", 0, data, parsed_text(data))
    /\ UNCHANGED <<otherVars, tableVars, connected_players, packaged>>

NextNames ==
    \/ SlotInfoChanges
    \/ handle_connected
    \/ handle_data_package
    \/ Resolve
    \/ handle_print_json

SpecNames == InitNames /\ [][NextNames]_vars

\* ---------------------------------------------------- the animation curves
\* animate_text_slide_fixed and animate_image_pop_fixed on their own.  The
\* coordinates, scales and progress values are exact fractions <<n, d>>,
\* d > 0, in lowest terms; an easing power is a whole number.
MaxSteps == 3
RECURSIVE GCD(_, _)
GCD(a, b) == IF b = 0 THEN a ELSE GCD(b, a % b)
Abs(a) == IF a < 0 THEN 0 - a ELSE a
Frac(n, d) ==
    LET g == GCD(Abs(n), Abs(d))
        sg == IF d < 0 THEN 0 - 1 ELSE 1
    IN <<(sg * n) \div g, (sg * d) \div g>>
Whole(n) == <<n, 1>>
FAdd(x, y) == Frac(x[1] * y[2] + y[1] * x[2], x[2] * y[2])
FSub(x, y) == Frac(x[1] * y[2] - y[1] * x[2], x[2] * y[2])
FMul(x, y) == Frac(x[1] * y[1], x[2] * y[2])
FDiv(x, y) == Frac(x[1] * y[2], x[2] * y[1])
FLess(x, y) == x[1] * y[2] < y[1] * x[2]
RECURSIVE FPow(_, _)
FPow(x, k) == IF k = 0 THEN Whole(1) ELSE FMul(x, FPow(x, k - 1))

\* the animation_config values the two coroutines read, at their fallbacks
\* (text_easing_power, 2.5 in the source, at the nearest whole number above)
DefaultAnimation ==
    [text_start_x |-> Whole(0 - 500), text_end_x |-> Whole(200), text_easing_power |-> 3,
     image_bounce_enabled |-> TRUE, image_max_overshoot |-> Frac(14, 10),
     image_overshoot_point |-> Frac(6, 10), image_settle_point |-> Frac(8, 10),
     image_intermediate_scale |-> Frac(11, 10), image_easing_power |-> 2]
AnimationConfigs ==
    {DefaultAnimation,
     [DefaultAnimation EXCEPT !.text_start_x = Whole(300), !.text_easing_power = 2],
     [DefaultAnimation EXCEPT !.text_end_x = Whole(0 - 500), !.text_easing_power = 1],
     [DefaultAnimation EXCEPT !.image_bounce_enabled = FALSE],
     [DefaultAnimation EXCEPT !.image_bounce_enabled = FALSE, !.image_easing_power = 1],
     [DefaultAnimation EXCEPT !.image_overshoot_point = Frac(1, 4),
                              !.image_settle_point = Frac(1, 2),
                              !.image_easing_power = 3],
     [DefaultAnimation EXCEPT !.image_max_overshoot = Frac(0 - 1, 2),
                              !.image_intermediate_scale = Frac(0 - 1, 4)],
     [DefaultAnimation EXCEPT !.image_overshoot_point = Whole(0)]}

\* current_x of step `step` of `steps`
slide_x(cfg, step, steps) ==
    LET progress == Frac(step, steps)
        eased_progress == FSub(Whole(1), FPow(FSub(Whole(1), progress), cfg.text_easing_power))
    IN FAdd(cfg.text_start_x, FMul(FSub(cfg.text_end_x, cfg.text_start_x), eased_progress))

\* faulty variant: the scale is issued as computed
Unclamped(scale) == scale
\* scale = max(0, scale)
Clamped(scale) == IF FLess(scale, Whole(0)) THEN Whole(0) ELSE scale

\* the scale of step `step` of `steps`, before the clamp
pop_scale(cfg, step, steps) ==
    LET progress == Frac(step, steps)
        max_overshoot == cfg.image_max_overshoot
        overshoot_point == cfg.image_overshoot_point
        settle_point == cfg.image_settle_point
        intermediate_scale == cfg.image_intermediate_scale
        easing_power == cfg.image_easing_power
    IN IF cfg.image_bounce_enabled
       THEN IF FLess(progress, overshoot_point)
            THEN FMul(progress, max_overshoot)
            ELSE IF FLess(progress, settle_point)
            THEN LET overshoot_progress == FDiv(FSub(progress, overshoot_point),
                                                FSub(settle_point, overshoot_point))
                 IN FAdd(FMul(max_overshoot, FSub(Whole(1), overshoot_progress)),
                         FMul(intermediate_scale, overshoot_progress))
            ELSE LET final_progress == FDiv(FSub(progress, settle_point),
                                            FSub(Whole(1), settle_point))
                     eased_progress == FSub(Whole(1),
                                            FPow(FSub(Whole(1), final_progress), easing_power))
                 IN FAdd(FMul(intermediate_scale, FSub(Whole(1), eased_progress)),
                         FMul(Whole(1), eased_progress))
       ELSE IF easing_power # 1
            THEN FSub(Whole(1), FPow(FSub(Whole(1), progress), easing_power))
            ELSE progress

\* a set_scene_item_transform call, or the sleep after it
Transform(step, value, ok) == [op |-> "set", step |-> step, value |-> value, ok |-> ok]
Sleep(step) == [op |-> "sleep", step |-> step, value |-> Whole(0), ok |-> TRUE]

InitCurve ==
    /\ config_file = "default"
    /\ obs_client = TRUE
    /\ running = TRUE
    /\ proc = "running"
    /\ pending = 0
    /\ pc = "loop"
    /\ lineNo = 0
    /\ cur_line = <<>>
    /\ idx = 1
    /\ tasks = {}
    /\ nfail = 0
    /\ failed = {}
    /\ issued = {}
    /\ ownerLog = <<>>
    /\ phaseLog = <<>>
    /\ sceneLog = <<>>
    /\ current_scene = "Main Stream"
    /\ matched = <<>>
    /\ actionLog = <<>>
    /\ actionFailedAt = {}
    /\ arrived = 0
    /\ ready = <<>>
    /\ clientCalls = <<>>
    /\ p_input = NoInput
    /\ p_runs = 0
    /\ p_events = <<>>
    /\ NamesIdle
    /\ stdout_open = TRUE
    /\ exitLog = <<>>
    /\ TickerIdle
    /\ MergeIdle
    /\ a_fn \in {"slide", "pop"}
    /\ a_config \in AnimationConfigs
    /\ a_steps \in 1..MaxSteps
    /\ a_step = 0
    /\ a_log = <<>>

restVars == <<config_file, obs_client, running, pipeVars, pc, lineNo, cur_line, idx, tasks,
              nfail, failed, issued, ownerLog, phaseLog, sceneLog, current_scene, matched,
              actVars, clientVars, parseVars, nameVars, exitVars, tickerVars, mergeVars>>

\* one turn of a step loop: the set_scene_item_transform call with `value`
\* and, when it returned and a step is left, the sleep; a call that raises
\* leaves the loop (the try of the coroutine encloses the loop)
LoopTurn(value) ==
    \E ok \in BOOLEAN :
        /\ a_log' = a_log \o <<Transform(a_step, value, ok)>>
                          \o (IF ok /\ a_step < a_steps THEN <<Sleep(a_step)>> ELSE <<>>)
        /\ a_step' = IF ok THEN a_step + 1 ELSE a_steps + 2

\* animate_text_slide_fixed: for step in range(steps + 1)
SlideStep ==
    /\ a_fn = "slide"
    /\ a_step <= a_steps
    /\ LoopTurn(slide_x(a_config, a_step, a_steps))
    /\ UNCHANGED <<restVars, a_fn, a_config, a_steps>>

\* animate_image_pop_fixed: for step in range(steps + 1)
PopStep ==
    /\ a_fn = "pop"
    /\ a_step <= a_steps
    /\ LoopTurn(Clamped(pop_scale(a_config, a_step, a_steps)))
    /\ UNCHANGED <<restVars, a_fn, a_config, a_steps>>

NextCurve ==
    \/ SlideStep
    \/ PopStep

SpecCurve == InitCurve /\ [][NextCurve]_vars

\* ------------------------------------------------------ the ticker elements
\* reset_ticker_positions, update_ticker_content and the first step of the
\* text slide, followed on the elements of the control surface: each source
\* has a horizontal offset, a scale and a content (the text, or an image path).
\* animation_config.get('text_start_x', fallback): the key may be missing
\* (a config handed to the constructor; load_config always defines it), null,
\* or a number
Missing == [kind |-> "missing", v |-> 0]
Null == [kind |-> "null", v |-> 0]
Num(v) == [kind |-> "num", v |-> v]
Get(value, fallback) == IF value.kind = "missing" THEN Num(fallback) ELSE value
TickerConfigs ==
    {[ticker_config |-> DefaultTickerConfig, text_start_x |-> x] :
        x \in {Missing, Null, Num(0 - 500), Num(300)}}
    \cup {[ticker_config |-> ConfigTable["shared"].ticker_config, text_start_x |-> Num(0 - 500)]}
\* an event as the protocol-client bridge builds it for a received item, with
\* both an item and a location name
BothNames == Events[LineItem].data @@ [location_name |-> <<"C", "a", "v", "e">>]
TickerEvents == {Events[l].data : l \in {LineItem, LineCheck, LineGoal, LineRaw}} \cup {BothNames}
ElementNames == {DefaultTickerConfig[Slots[k]] : k \in DOMAIN Slots}
Element(x, scale, content) == [x |-> x, scale |-> scale, content |-> content]
SourceOf(slot) == t_config.ticker_config[slot]
\* the outcomes of the calls of one step, one per slot (the elements start
\* as an earlier update left them: on screen, at scale 1)
StepOutcomes ==
    {os \in [DOMAIN Slots -> {"ok", "fail"}] :
        Cardinality({k \in DOMAIN Slots : os[k] = "fail"}) <= MaxFailures}

\* text_start_x as reset_ticker_positions, resp. animate_text_slide_fixed, reads it
reset_start_x == Get(t_config.text_start_x, 0 - 400)
slide_start_x == Get(t_config.text_start_x, 0 - 500)
\* whether RESET issues a set_scene_item_transform call for the slot
ResetCalls(slot) ==
    /\ SourceOf(slot) \in t_scene
    /\ IF slot = "text" THEN reset_start_x.kind = "num" ELSE SourceOf(slot) # ""
\* faulty variant: the text is moved by text_start_x from where it stands
ResetElementBy(slot, el) ==
    IF slot = "text" THEN [el EXCEPT !.x = el.x + reset_start_x.v] ELSE [el EXCEPT !.scale = 0]
\* what the RESET call of a slot makes of its element
ResetElement(slot, el) ==
    IF slot = "text" THEN [el EXCEPT !.x = reset_start_x.v] ELSE [el EXCEPT !.scale = 0]
RECURSIVE ResetFrom(_, _, _)
ResetFrom(els, k, os) ==
    IF k > Len(Slots) THEN els
    ELSE LET slot == Slots[k]
             n == SourceOf(slot)
         IN ResetFrom(IF ResetCalls(slot) /\ os[k] = "ok"
                      THEN [els EXCEPT ![n] = ResetElement(slot, els[n])]
                      ELSE els, k + 1, os)

\* event_data.get('ticker_text', event_data.get('text', ''))
TickerText(event_data) ==
    IF "ticker_text" \in DOMAIN event_data THEN event_data.ticker_text
    ELSE IF "text" \in DOMAIN event_data THEN event_data.text
    ELSE <<>>
\* the image path an image slot looks up for the event
ImagePath(slot, event_data) ==
    CASE slot = "player" -> get_player_image(event_data.player_name)
      [] slot = "event" -> get_event_image(EventTypeOf(event_data))
      [] slot = "item" -> get_item_image(event_data.item_name)
      [] slot = "location" -> get_location_image(event_data.location_name)
\* the settings of the set_input_settings call of a slot
ContentOf(slot, event_data) ==
    IF slot = "text" THEN TickerText(event_data) ELSE ImagePath(slot, event_data)
RECURSIVE ContentFrom(_, _, _)
ContentFrom(els, k, os) ==
    IF k > Len(Slots) THEN els
    ELSE LET slot == Slots[k]
             n == SourceOf(slot)
         IN ContentFrom(IF /\ update_ticker_content(slot, t_event)
                           /\ n \in DOMAIN els
                           /\ os[k] = "ok"
                        THEN [els EXCEPT ![n].content = ContentOf(slot, t_event)]
                        ELSE els, k + 1, os)

InitTicker ==
    /\ config_file = "default"
    /\ obs_client = TRUE
    /\ running = TRUE
    /\ proc = "running"
    /\ pending = 0
    /\ pc = "loop"
    /\ lineNo = 0
    /\ cur_line = <<>>
    /\ idx = 1
    /\ tasks = {}
    /\ nfail = 0
    /\ failed = {}
    /\ issued = {}
    /\ ownerLog = <<>>
    /\ phaseLog = <<>>
    /\ sceneLog = <<>>
    /\ current_scene = "Main Stream"
    /\ matched = <<>>
    /\ actionLog = <<>>
    /\ actionFailedAt = {}
    /\ arrived = 0
    /\ ready = <<>>
    /\ clientCalls = <<>>
    /\ p_input = NoInput
    /\ p_runs = 0
    /\ p_events = <<>>
    /\ NamesIdle
    /\ stdout_open = TRUE
    /\ exitLog = <<>>
    /\ a_fn = "none"
    /\ a_config = <<>>
    /\ a_steps = 1
    /\ a_step = 0
    /\ a_log = <<>>
    /\ t_config \in TickerConfigs
    /\ t_event \in TickerEvents
    /\ t_scene \in {ElementNames, ElementNames \ {"TickerEventImage"}}
    /\ t_elements = [n \in ElementNames |->
                        Element(200, 1, IF n = "TickerText" THEN <<>> ELSE NoPath)]
    /\ t_phase = "idle"
    /\ t_resets = 0
    /\ t_first = <<>>
    /\ t_failed = {}
    /\ MergeIdle

tickerRest == <<config_file, obs_client, running, pipeVars, pc, lineNo, cur_line, idx, tasks,
                nfail, failed, issued, ownerLog, phaseLog, sceneLog, current_scene, matched,
                actVars, clientVars, parseVars, nameVars, exitVars, curveVars, mergeVars>>

\* reset_ticker_positions, all of it; it may be run again before anything else
reset_ticker_positions ==
    /\ t_phase \in {"idle", "reset"}
    /\ t_resets < 2
    /\ \E os \in StepOutcomes :
         /\ t_elements' = ResetFrom(t_elements, 1, os)
         /\ t_failed' = IF t_resets = 0
                        THEN {Slots[k] : k \in {j \in DOMAIN Slots :
                                                   ResetCalls(Slots[j]) /\ os[j] = "fail"}}
                        ELSE t_failed
    /\ t_first' = IF t_resets = 0 THEN t_elements' ELSE t_first
    /\ t_resets' = t_resets + 1
    /\ t_phase' = "reset"
    /\ UNCHANGED <<tickerRest, t_config, t_event, t_scene>>

\* update_ticker_content, all of it
ContentApplied ==
    /\ t_phase = "reset"
    /\ \E os \in StepOutcomes :
         /\ t_elements' = ContentFrom(t_elements, 1, os)
         /\ t_failed' = {Slots[k] : k \in {j \in DOMAIN Slots : os[j] = "fail"}}
    /\ t_resets' = 0
    /\ t_phase' = "content"
    /\ UNCHANGED <<tickerRest, t_config, t_event, t_scene, t_first>>

\* step 0 of animate_text_slide_fixed: nothing is issued when the text source
\* is no item of the scene or float(text_start_x) raises
SlideFirstStep ==
    /\ t_phase = "content"
    /\ \E ok \in BOOLEAN :
         t_elements' =
            IF "TickerText" \in t_scene /\ slide_start_x.kind = "num" /\ ok
            THEN [t_elements EXCEPT
                    !["TickerText"].x =
                        slide_x([DefaultAnimation EXCEPT
                                    !.text_start_x = Whole(slide_start_x.v)], 0, MaxSteps)[1]]
            ELSE t_elements
    /\ t_phase' = "sliding"
    /\ UNCHANGED <<tickerRest, t_config, t_event, t_scene, t_resets, t_first, t_failed>>

\* the animations run to their last step: the text at the end coordinate,
\* every named image of the scene at scale 1
AnimationsEnd ==
    /\ t_phase = "sliding"
    /\ t_elements' =
          [n \in ElementNames |->
              IF n \notin t_scene THEN t_elements[n]
              ELSE IF n = SourceOf("text") /\ slide_start_x.kind = "num"
              THEN [t_elements[n] EXCEPT !.x = 200]
              ELSE IF \E k \in DOMAIN ImageSlots : SourceOf(ImageSlots[k]) = n
              THEN [t_elements[n] EXCEPT !.scale = 1]
              ELSE t_elements[n]]
    /\ t_phase' = "done"
    /\ UNCHANGED <<tickerRest, t_config, t_event, t_scene, t_resets, t_first, t_failed>>

NextTicker ==
    \/ reset_ticker_positions
    \/ ContentApplied
    \/ SlideFirstStep
    \/ AnimationsEnd

SpecTicker == InitTicker /\ [][NextTicker]_vars

\* ---------------------------------------------------------------- load_config
\* deep_merge over JSON documents: a value is a scalar or an object, an
\* object a function from its keys to values.
MaxMerges == 2
NoItems == [k \in {} |-> 0]
Scalar(v) == [kind |-> "scalar", v |-> v, items |-> NoItems]
Dict(items) == [kind |-> "dict", v |-> "", items |-> items]
IsDict(value) == value.kind = "dict"
\* a part of default_config: a scalar key and a key nested two objects deep
default_config ==
    Dict([obs_port |-> Scalar("4455"),
          obs_actions |->
              Dict([goal_completed |->
                        Dict([type |-> Scalar("scene_switch"),
                              scene_name |-> Scalar("GoalCompleted")])])])
\* the objects over (a subset of) the keys, with the values
Objects(keys, values) == {Dict(f) : f \in UNION {[ks -> values] : ks \in SUBSET keys}}
\* the documents a config.json may hold: objects over known and new keys,
\* three levels deep, and a document that is no object
ActionDocs == {Scalar("u")} \cup Objects({"type", "visible"}, {Scalar("u")})
ActionTables == {Scalar("u")} \cup Objects({"goal_completed", "raw_message"}, ActionDocs)
UserDocs == {Scalar("u")} \cup Objects({"obs_port", "obs_actions"}, ActionTables)

\* faulty variant: a user object replaces the default object wholesale
ShallowMerge(default, user) ==
    Dict([key \in DOMAIN default.items \cup DOMAIN user.items |->
            IF key \in DOMAIN user.items THEN user.items[key] ELSE default.items[key]])
\* deep_merge(default, user): default after the loop over user.items()
RECURSIVE deep_merge(_, _)
deep_merge(default, user) ==
    Dict([key \in DOMAIN default.items \cup DOMAIN user.items |->
            IF key \notin DOMAIN user.items THEN default.items[key]
            ELSE IF /\ key \in DOMAIN default.items
                    /\ IsDict(default.items[key])
                    /\ IsDict(user.items[key])
                 THEN deep_merge(default.items[key], user.items[key])
                 ELSE user.items[key]])

InitMerge ==
    /\ config_file = "default"
    /\ obs_client = TRUE
    /\ running = TRUE
    /\ proc = "running"
    /\ pending = 0
    /\ pc = "loop"
    /\ lineNo = 0
    /\ cur_line = <<>>
    /\ idx = 1
    /\ tasks = {}
    /\ nfail = 0
    /\ failed = {}
    /\ issued = {}
    /\ ownerLog = <<>>
    /\ phaseLog = <<>>
    /\ sceneLog = <<>>
    /\ current_scene = "Main Stream"
    /\ matched = <<>>
    /\ actionLog = <<>>
    /\ actionFailedAt = {}
    /\ arrived = 0
    /\ ready = <<>>
    /\ clientCalls = <<>>
    /\ p_input = NoInput
    /\ p_runs = 0
    /\ p_events = <<>>
    /\ NamesIdle
    /\ stdout_open = TRUE
    /\ exitLog = <<>>
    /\ a_fn = "none"
    /\ a_config = <<>>
    /\ a_steps = 1
    /\ a_step = 0
    /\ a_log = <<>>
    /\ TickerIdle
    /\ m_config = default_config
    /\ m_user \in UserDocs
    /\ m_merges = 0
    /\ m_once = <<>>

mergeRest == <<config_file, obs_client, running, pipeVars, pc, lineNo, cur_line, idx, tasks,
               nfail, failed, issued, ownerLog, phaseLog, sceneLog, current_scene, matched,
               actVars, clientVars, parseVars, nameVars, exitVars, curveVars, tickerVars>>

\* deep_merge(default_config, user_config) inside the try of load_config: a
\* document that is no object has no items() and leaves default_config as it is
MergeUser ==
    /\ m_merges < MaxMerges
    /\ m_config' = IF IsDict(m_user) THEN deep_merge(m_config, m_user) ELSE m_config
    /\ m_once' = IF m_merges = 0 THEN m_config' ELSE m_once
    /\ m_merges' = m_merges + 1
    /\ UNCHANGED <<mergeRest, m_user>>

NextMerge == MergeUser

SpecMerge == InitMerge /\ [][NextMerge]_vars

\* ------------------------------------------------------------- properties
IdlePcs == {"loop", "readline", "stopped"}
TickerPcs == {"reset", "content", "animate", "join"}
CelebrationPcs == {"celebrate", "celeb_switch", "celeb_pause", "celeb_return"}
IsPrefix(a, b) == Len(a) <= Len(b) /\ SubSeq(b, 1, Len(a)) = a
\* the ticker update of the current event has returned
TickerReturned == cur.type # "none" /\ pc \notin TickerPcs
ByCelebration(e) == e.by = "celebration"
InTicker(ph) == ph \in {"reset", "content", "animate"}

\* C1: in the subprocess bridge the control-surface calls of line N all come
\* before any call of line N+1, lines are served in arrival order, and no
\* matched line is skipped: the sequence of lines calls were made for is a
\* prefix of the matched lines, and is all of them whenever the loop is idle
\* (with a control-surface client attached: without one no call is made).
C1_ArrivalOrder ==
    /\ IsPrefix(ownerLog, matched)
    /\ (obs_client /\ pc \in IdlePcs) => ownerLog = matched
C1_Witness == pc = "loop" /\ ownerLog = <<1, 2>> /\ issued # {}

\* C2: in the protocol-client bridge the calls of two packets never
\* interleave and follow the packets' arrival order.
C2_PacketsInOrder ==
    \A i, j \in DOMAIN clientCalls : i < j => clientCalls[i].packet <= clientCalls[j].packet
C2_Witness ==
    /\ Len(clientCalls) >= 3
    /\ clientCalls[1].packet = clientCalls[2].packet
    /\ clientCalls[3].packet > clientCalls[2].packet

\* C3: a goal_completed event with celebrations enabled and no failing call
\* issues exactly one set-scene call to the celebration scene, followed by
\* exactly one set-scene call back to the main scene (the statement as the
\* specification makes it; the configured action breaks it).
C3_OneSwitchEach ==
    (pc \in IdlePcs /\ cur.type = "goal_completed" /\ config.enable_celebrations /\ nfail = 0)
    => LET celeb == {i \in DOMAIN sceneLog : sceneLog[i].scene = config.celebration_scene}
       IN /\ Cardinality(celeb) = 1
          /\ \A i \in celeb :
               Cardinality({j \in DOMAIN sceneLog :
                              j > i /\ sceneLog[j].scene = config.scene_name}) = 1

\* C4: the celebration starts only after the ticker update has finished and
\* its tasks are joined; a failed celebration text update does not prevent
\* the switch, the pause and the return; with celebrations disabled the
\* celebration issues no scene switch.
C4_CelebrationAfterTicker ==
    /\ pc \in CelebrationPcs => tasks = {}
    /\ \A i, j \in DOMAIN phaseLog :
         (i < j /\ phaseLog[i] = "celebration") => phaseLog[j] \in {"celebration", "action"}
    /\ (/\ pc \in IdlePcs \cup {"action"}
        /\ cur.type = "goal_completed"
        /\ config.enable_celebrations
        /\ \A i \in DOMAIN sceneLog : ByCelebration(sceneLog[i]) => sceneLog[i].ok)
       => LET c == SelectSeq(sceneLog, ByCelebration)
          IN /\ Len(c) = 2
             /\ c[1].scene = config.celebration_scene
             /\ c[2].scene = config.scene_name
    /\ ~config.enable_celebrations => \A i \in DOMAIN sceneLog : ~ByCelebration(sceneLog[i])
C4_Witness ==
    /\ pc = "action"
    /\ Call("celebration", "celebration_text", 0) \in failed
    /\ Len(SelectSeq(sceneLog, ByCelebration)) = 2

\* C5: with animations enabled the calls of one ticker update come in the
\* order RESET, content, animation: no RESET call after a content call, no
\* content call after an animation call.
C5_PhaseOrder ==
    config.enable_animations
    => LET t == SelectSeq(phaseLog, InTicker)
       IN IsPrefix(t, <<"reset", "content", "animate">>)
C5_Witness ==
    /\ config.enable_animations
    /\ pc \in IdlePcs
    /\ SelectSeq(phaseLog, InTicker) = <<"reset", "content", "animate">>
    /\ Call("animate", "text", Steps) \in issued

\* C6: with enable_animations false a ticker update is the content step
\* only: no RESET call, no animation task, no set-transform call.
C6_StaticUpdate ==
    ~config.enable_animations
    => /\ tasks = {}
       /\ \A c \in issued \cup failed : c.phase \in {"content", "celebration"}
       /\ \A i \in DOMAIN phaseLog : phaseLog[i] \notin {"reset", "scene", "animate"}
C6_Witness ==
    /\ ~config.enable_animations
    /\ pc \in IdlePcs
    /\ Call("content", "text", 0) \in issued

\* C7: the text task and the image tasks are joined before the ticker update
\* returns, also when a task fails: an unfinished task exists only while the
\* update of the line that created it waits at the join.
C7_JoinedBeforeReturn ==
    \A t \in tasks : ~Finished(t) => (pc = "join" /\ t.owner = lineNo)
C7_Witness ==
    /\ pc \in {"celebrate", "action"}
    /\ tasks = {}
    /\ \E c \in failed : c.phase = "animate" /\ c.step = 0
    /\ \E c \in issued : c.phase = "animate" /\ c.step = Steps

\* C8 (as stated): two animation tasks in mid-animation at the same time
\* never write the same element, whatever the ticker_config.
MidAnimation(t) == t.st = "sleep"
C8_DistinctElements ==
    \A t, u \in tasks :
        (t # u /\ MidAnimation(t) /\ MidAnimation(u)) => TaskSource(t.slot) # TaskSource(u.slot)
\* C8 (amended): when the elements the ticker_config names are pairwise
\* distinct, two tasks in mid-animation never write the same element.
NamesDistinct ==
    \A a, b \in DOMAIN config.ticker_config :
        (a # b /\ config.ticker_config[a] # "" /\ config.ticker_config[b] # "")
        => config.ticker_config[a] # config.ticker_config[b]
C8_DistinctWhenNamesDistinct ==
    NamesDistinct =>
        \A t, u \in tasks :
            (t # u /\ MidAnimation(t) /\ MidAnimation(u))
            => TaskSource(t.slot) # TaskSource(u.slot)
C8_Witness ==
    /\ NamesDistinct
    /\ \E t, u \in tasks : t # u /\ MidAnimation(t) /\ MidAnimation(u)

\* the calls a ticker update makes for a slot when none of them fails
Expected(s) ==
    LET named == Named(s)
    IN (IF config.enable_animations /\ named THEN {Call("reset", s, 0)} ELSE {})
       \cup (IF update_ticker_content(s, cur.data) THEN {Call("content", s, 0)} ELSE {})
       \cup (IF config.enable_animations /\ named /\ (s # "text" \/ config.text_end_x # None)
             THEN {Call("animate", s, k) : k \in 0..Steps} ELSE {})

\* C9: a failing call on one ticker slot does not abort the ticker update and
\* nothing is raised: when the update has returned, every slot none of whose
\* calls failed has received all its calls.
C9_SlotFailureIsolated ==
    /\ pc # "crashed"
    /\ TickerReturned =>
         \A k \in DOMAIN Slots :
            (\A c \in failed : c.slot # Slots[k]) => Expected(Slots[k]) \subseteq issued
C9_Witness ==
    /\ pc = "action"
    /\ config.enable_animations
    /\ \E c \in failed : c.phase \in {"reset", "content", "animate"}
    /\ \E k \in DOMAIN Slots :
         /\ \A c \in failed : c.slot # Slots[k]
         /\ Call("animate", Slots[k], Steps) \in issued

\* C10 (as stated): a set-transform call failing at step k < steps does not
\* end the animation: the element still receives the final-step transform.
C10_AnimationContinues ==
    TickerReturned =>
        \A c \in failed :
            (c.phase = "animate" /\ c.step >= 0 /\ c.step < Steps)
            => Call("animate", c.slot, Steps) \in issued

C12_TextUpdateIssued ==
    (pc \in IdlePcs /\ cur.type # "none" /\ action_config(cur.type).type = "text_update")
    => \E k \in DOMAIN actionLog :
          /\ actionLog[k].call = "set_input_settings"
          /\ actionLog[k].target = action_config(cur.type).source_name

\* the template of a text_update call names a field the event does not carry
MissingField(c) ==
    LET template == action_config(c.event).text_template
    IN \E k \in DOMAIN template :
          template[k].kind = "field" /\ template[k].name \notin ClientEventFields(c.event)
\* C13 (as stated): a text_update whose template names a field the event
\* does not carry still issues the set-text call, and the value displayed is
\* the event's text.
C13_FallbackIsEventText ==
    \A k \in DOMAIN clientCalls :
        (clientCalls[k].call = "set_input_settings" /\ MissingField(clientCalls[k]))
        => clientCalls[k].value = <<Value("text")>>

\* C14 (as stated): a source_visibility action sets the enabled flag only
\* after it has resolved the source to an element id.
C14_ResolvedBeforeEnable ==
    \A k \in DOMAIN clientCalls :
        clientCalls[k].call = "set_scene_item_enabled"
        => \E j \in 1..(k - 1) :
              /\ clientCalls[j].call = "get_scene_item_id"
              /\ clientCalls[j].packet = clientCalls[k].packet
              /\ clientCalls[j].st = "ok"

\* C15 (as stated): a filter_toggle or media_restart action issues its
\* mutating call only after an existence check on the target.
C15_CheckedBeforeMutation ==
    \A k \in DOMAIN clientCalls :
        clientCalls[k].call \in {"set_source_filter_enabled", "trigger_media_input_action"}
        => \E j \in 1..(k - 1) :
              /\ clientCalls[j].call \in {"get_source_filter_list", "get_source_filter",
                                          "get_input_list", "get_input_settings"}
              /\ clientCalls[j].packet = clientCalls[k].packet

\* C16: a failing call of the configured action of a line is caught inside
\* trigger_obs_event: the reading loop goes on, it stops only when the client
\* process has exited, and every later matched line still gets its calls.
C16_ActionFailureContained ==
    actionFailedAt # {}
    => /\ pc # "crashed"
       /\ pc = "stopped" => proc = "exited"
       /\ pc \in IdlePcs => ownerLog = matched
C16_Witness ==
    /\ 1 \in actionFailedAt
    /\ lineNo = 2
    /\ pc = "loop"
    /\ ownerLog = <<1, 2>>
    /\ SelectSeq(phaseLog, InTicker) = <<"reset", "content", "animate">>

\* ---------------------------------------------------- line-parsing claims
\* the line as parse_and_trigger_events receives it
CleanLine == strip_ansi_codes(Strip(InputLine(p_input)))
\* the rules, by position in the fixed order, whose pattern matches the line
MatchingRules == {k \in 1..Len(patterns) : PatternSearch(patterns[k], CleanLine).ok}

\* C17: a line matching one or more rules yields exactly one event per run,
\* of the type of the earliest matching rule in the fixed order
\* (item_received, item_sent, location_checked, player_joined, player_left,
\* goal_completed, hint, chat, server_message, release, collect, connected,
\* connection_failed), and every run on the same line yields the same event.
C17_FirstMatchWins ==
    MatchingRules # {} =>
        /\ Len(p_events) = p_runs
        /\ \A n \in DOMAIN p_events :
              /\ \E k \in MatchingRules :
                    /\ p_events[n].type = patterns[k]
                    /\ \A j \in MatchingRules : k <= j
              /\ p_events[n] = p_events[1]
\* a line matching two rules has been parsed on every run
C17_Witness == Cardinality(MatchingRules) >= 2 /\ p_runs = Runs /\ Len(p_events) = Runs

\* whether the line holds one of the six keywords in any mix of cases
KeywordIn(line) ==
    \E w \in {KW_item, KW_location, KW_player, KW_goal, KW_hint, KW_chat} :
        \E i \in 1..(Len(line) - Len(w) + 1) :
            \A j \in 1..Len(w) : LowerChar(line[i + j - 1]) = w[j]

\* C18: a line that matches no rule yields, on each run, exactly one
\* raw_message event whose text is the line when the line holds one of the
\* keywords item, location, player, goal, hint, chat in any case, and no event
\* at all otherwise; a run never hands over more than the one event, so a
\* dropped line is not processed later.
C18_RawMessageOrNothing ==
    MatchingRules = {} =>
        IF KeywordIn(CleanLine)
        THEN /\ Len(p_events) = p_runs
             /\ \A n \in DOMAIN p_events :
                   p_events[n] = [type |-> "raw_message", data |-> [text |-> CleanLine]]
        ELSE p_events = <<>>
\* a keyword line in capitals has produced its raw_message on every run
C18_Witness ==
    /\ MatchingRules = {}
    /\ p_input.a = <<"G", "O", "A", "L", " ", "l", "i", "s", "t">>
    /\ p_runs = Runs
    /\ Len(p_events) = Runs

\* the delimiters a player string is cut at
Delimiters == {<<"_", "_">>, <<"(">>, <<"[">>}
PlayerFields == {"player_name", "receiving_player", "sending_player"}
\* name is token cut at a delimiter: a prefix of the token, followed there by
\* nothing but blanks or by a delimiter
CutOf(name, token) ==
    /\ IsPrefix(name, token)
    /\ LET rest == Strip(From(token, Len(name) + 1))
       IN rest = <<>> \/ \E d \in Delimiters : IsPrefix(d, rest)
\* the tokens of the line are free of the words the rules look for
RuleWords ==
    {Strip(K) : K \in {K_received, K_from, K_sent, K_to, K_checked, K_has_joined,
                       K_has_left, K_completed, K_Hint, K_Notice, K_has_released,
                       K_has_collected, K_connected, K_Failed, K_Connection, K_Unable}}
    \cup {K_close_bracket, K_colon}
KeywordFree(token) == \A w \in RuleWords : Occ(token, w) = {}
WellFormed ==
    /\ p_input.form \in {"received", "sent", "checked"}
    /\ KeywordFree(p_input.a) /\ KeywordFree(p_input.i) /\ KeywordFree(p_input.b)

\* C19: in every event produced by line parsing no player-name field
\* (player_name, receiving_player, sending_player) contains "__", "(" or "[",
\* and the player of a received, sent or checked line is the captured token
\* cut at a delimiter.
C19_PlayerNamesCanonical ==
    \A n \in DOMAIN p_events :
        LET data == p_events[n].data
        IN /\ \A f \in PlayerFields \cap DOMAIN data :
                 \A d \in Delimiters : Occ(data[f], d) = {}
           /\ WellFormed =>
                 /\ CutOf(data.player_name, p_input.a)
                 /\ p_input.form = "received" =>
                       CutOf(data.receiving_player, p_input.a) /\ CutOf(data.sending_player, p_input.b)
                 /\ p_input.form = "sent" =>
                       CutOf(data.sending_player, p_input.a) /\ CutOf(data.receiving_player, p_input.b)
\* a line whose players carry a "(" and a "[" suffix has been parsed
C19_Witness ==
    /\ p_input.form = "received"
    /\ p_input.a = <<"C", "y", "[", "2", "]">>
    /\ p_input.b = <<"B", "o", " ", "(", "x", ")">>
    /\ Len(p_events) = Runs
    /\ p_events[1].data.receiving_player = <<"C", "y">>
    /\ p_events[1].data.sending_player = <<"B", "o">>

\* the fields and text the message forms announce, tokens taken literally
FieldsAsCaptured(e) ==
    CASE p_input.form = "received" ->
           /\ e.type = "item_received"
           /\ e.data.receiving_player = p_input.a
           /\ e.data.item_name = p_input.i
           /\ e.data.sending_player = p_input.b
           /\ e.data.text = CleanLine
      [] p_input.form = "sent" ->
           /\ e.type = "item_sent"
           /\ e.data.sending_player = p_input.a
           /\ e.data.item_name = p_input.i
           /\ e.data.receiving_player = p_input.b
           /\ e.data.text = CleanLine
      [] p_input.form = "checked" ->
           /\ e.type = "location_checked"
           /\ e.data.player_name = p_input.a
           /\ e.data.location_name = p_input.i
           /\ e.data.text = CleanLine
      [] OTHER -> TRUE
\* a player token that extract_player_name leaves as it is
Canonical(token) ==
    /\ \A d \in Delimiters : Occ(token, d) = {}
    /\ token # <<>> => ~IsSpace(token[1]) /\ ~IsSpace(token[Len(token)])

\* C20 as stated: a line "A received I from B", "A sent I to B" or
\* "A checked L" whose tokens are free of the rule keywords yields the event
\* of its form with the player fields equal to A and B, the item or location
\* equal to I or L, and the text equal to the line.
C20_FieldsEqualTokens ==
    WellFormed => (Len(p_events) = p_runs /\ \A n \in DOMAIN p_events : FieldsAsCaptured(p_events[n]))
\* C20: the same, for lines whose player tokens hold no "__", "(" or "[" and
\* no blank at either end.
C20_FieldsEqualCanonicalTokens ==
    (WellFormed /\ Canonical(p_input.a) /\ Canonical(p_input.b)) =>
        (Len(p_events) = p_runs /\ \A n \in DOMAIN p_events : FieldsAsCaptured(p_events[n]))
\* "Al received Big Map from Bo" has been parsed
C20_Witness ==
    /\ p_input = Input("received", <<"A", "l">>, <<"B", "i", "g", " ", "M", "a", "p">>, <<"B", "o">>)
    /\ p_runs = Runs
    /\ Len(p_events) = Runs
    /\ p_events[1].data.item_name = <<"B", "i", "g", " ", "M", "a", "p">>

\* ------------------------------------------------- protocol-client events
\* C21: every event handed to the router carries a text; in the
\* protocol-client bridge the event of every control-surface call has a
\* "text" key in its event_data.
C21_EventsCarryText ==
    \A k \in DOMAIN clientCalls : "text" \in ClientEventFields(clientCalls[k].event)

\* ------------------------------------------------------ name-table claims
\* the tables of a kind that hold the id, when the attribute exists
Holding(tables, id) ==
    IF tables = None THEN {} ELSE {tables[1][k][id] : k \in {j \in DOMAIN tables[1] : id \in DOMAIN tables[1][j]}}
Placeholder(prefix, id) == <<prefix, Digits[id + 1]>>

\* C22: whatever the roster and the tables hold or whether they exist, a
\* resolver returns the stored name of the id (for a player the roster's, else
\* the one copied at Connected; for an item or location that of a game table
\* holding the id) and otherwise exactly Player_<id>, Item_<id>,
\* Location_<id>.
C22_ResolversTotal ==
    LET id == name_op.id
        r == name_op.result
    IN /\ name_op.op = "player" =>
            IF slot_info # None /\ id \in DOMAIN slot_info[1] THEN r = slot_info[1][id].name
            ELSE IF id \in DOMAIN connected_players THEN r = connected_players[id].name
            ELSE r = Placeholder("Player_", id)
       /\ name_op.op = "item" =>
            IF Holding(item_names, id) # {} THEN r \in Holding(item_names, id)
            ELSE r = Placeholder("Item_", id)
       /\ name_op.op = "location" =>
            IF Holding(location_names, id) # {} THEN r \in Holding(location_names, id)
            ELSE r = Placeholder("Location_", id)
\* player 1 was renamed in the roster after Connected copied the old name, and
\* resolves to the roster's name
C22_Witness ==
    /\ name_op.op = "player"
    /\ name_op.id = 1
    /\ slot_info # None
    /\ 1 \in DOMAIN slot_info[1]
    /\ 1 \in DOMAIN connected_players
    /\ connected_players[1].name # slot_info[1][1].name
    /\ name_op.result = slot_info[1][1].name

\* C23: once a DataPackage packet naming item 2 Key and location 2 Hut has
\* been handled, resolve_item_name(2) returns Key and resolve_location_name(2)
\* returns Hut.
C23_DataPackageFeedsResolver ==
    name_op.after =>
        /\ (name_op.op = "item" /\ name_op.id \in DOMAIN DataPackageItems) =>
              name_op.result = DataPackageItems[name_op.id]
        /\ (name_op.op = "location" /\ name_op.id \in DOMAIN DataPackageLocations) =>
              name_op.result = DataPackageLocations[name_op.id]

\* the text a part stands for: the resolved name of the id of a player_id,
\* item_id or location_id part, the literal text of any other part
Piece(part) ==
    IF part.type = "player_id" THEN resolve_player_name(part.id)
    ELSE IF part.type = "item_id" THEN resolve_item_name(part.id)
    ELSE IF part.type = "location_id" THEN resolve_location_name(part.id)
    ELSE part.text
\* text is the pieces of data[1..n] one after another
IsConcatenation(text, data, n) ==
    \E cut \in [0..n -> 0..Len(text)] :
        /\ cut[0] = 0
        /\ cut[n] = Len(text)
        /\ \A k \in 1..n :
              /\ cut[k - 1] <= cut[k]
              /\ SubSeq(text, cut[k - 1] + 1, cut[k]) = Piece(data[k])

\* C24: where the bridge flattens the data of a PrintJSON packet itself, the
\* event's text is the parts in list order, each player_id, item_id or
\* location_id part replaced by the resolved name of its id (the roster name
\* when the roster holds the id) and every other part by its literal text.
C24_FlattenInOrder ==
    (name_op.op = "print_json" /\ ~jsontotextparser) =>
        IsConcatenation(name_op.result, name_op.data, Len(name_op.data))
\* a player part in the roster and a plain string have been flattened
C24_Witness ==
    /\ name_op.op = "print_json"
    /\ ~jsontotextparser
    /\ name_op.data = <<Part("player_id", 1, <<>>), Part("str", 0, <<"!">>)>>
    /\ name_op.result = <<"Al", "!">>

\* the calls a step adds to clientCalls
NewCalls == SubSeq(clientCalls', Len(clientCalls) + 1, Len(clientCalls'))
\* C25: with a control surface attached, the task of a ReceivedItems packet
\* of k items makes, in one unbroken stretch, the calls of exactly k
\* item_received events, in the order of the items of the packet, the i-th
\* (from 0) carrying index = the packet's index + i.
C25_BatchInOrder ==
    [][(/\ ready # <<>>
        /\ ready' # ready
        /\ arrived' = arrived
        /\ Head(ready).packet.cmd = "ReceivedItems"
        /\ obs_client)
       => LET p == Head(ready).packet
          IN /\ Len(NewCalls) = p.n
             /\ ready' = Tail(ready)
             /\ \A i \in 1..p.n :
                   /\ NewCalls[i].packet = Head(ready).id
                   /\ NewCalls[i].event = "item_received"
                   /\ NewCalls[i].item_id = ItemsOf(p.n)[i]
                   /\ NewCalls[i].index = p.index + (i - 1)]_vars
\* a packet of several items with index 3 has been handled
C25_Witness ==
    \E i \in DOMAIN clientCalls :
        /\ i + 1 \in DOMAIN clientCalls
        /\ clientCalls[i].event = "item_received"
        /\ clientCalls[i].index = 3
        /\ clientCalls[i].item_id = MaxItems
        /\ clientCalls[i + 1].packet = clientCalls[i].packet
        /\ clientCalls[i + 1].index = 4
        /\ clientCalls[i + 1].item_id = MaxItems - 1

\* C26: an exception raised while one line is read and handled is caught
\* for that line only and the ingestion loop goes on: the loop is left only
\* when the stop flag is cleared or the client process has exited.
C26_BadLineDoesNotEndLoop ==
    LoopLeft => (~running \/ proc = "exited")

\* C27: on every exit path of run() the cleanup has run: the client process
\* is not left running, and with a control surface attached its connection is
\* closed and a disconnect notification was emitted.
C27_CleanupOnEveryExit ==
    pc \in {"done", "returned"}
    => /\ proc # "running"
       /\ obs_client => \E i, j \in DOMAIN exitLog :
                            /\ exitLog[i] = "disconnect"
                            /\ exitLog[j] = "archipelago_disconnected"

\* C28: once the stop flag is cleared or the input source closes (the
\* client's stdout at end of file, or the client process exited) the
\* ingestion loop eventually terminates.
C28_LoopTerminates ==
    (pc \in {"loop", "readline"} /\ (~running \/ ~stdout_open \/ proc = "exited")) ~> LoopLeft

\* ------------------------------------------------------- animation claims
\* the set-transform calls of the log, in order
IsSet(e) == e.op = "set"
Sets == SelectSeq(a_log, IsSet)
\* a bounce configuration with 0 < overshoot point < settle point < 1 and an
\* easing power of at least 1
Admissible(cfg) ==
    /\ cfg.image_bounce_enabled
    /\ FLess(Whole(0), cfg.image_overshoot_point)
    /\ FLess(cfg.image_overshoot_point, cfg.image_settle_point)
    /\ FLess(cfg.image_settle_point, Whole(1))
    /\ cfg.image_easing_power >= 1

\* C29: for the three-phase bounce curve with an admissible configuration and
\* any step count of at least 1, the scale issued at step 0 is 0, the scale
\* issued at the final step is exactly 1, and no issued scale is negative.
C29_BounceEndpoints ==
    (a_fn = "pop" /\ Admissible(a_config))
    => \A k \in DOMAIN Sets :
          /\ Sets[k].step = 0 => Sets[k].value = Whole(0)
          /\ Sets[k].step = a_steps => Sets[k].value = Whole(1)
          /\ ~FLess(Sets[k].value, Whole(0))
\* a pop with a negative overshoot has run through all its steps: the scale
\* of step 1 was clamped to 0 and the last step issued 1
C29_Witness ==
    /\ a_fn = "pop"
    /\ Admissible(a_config)
    /\ FLess(a_config.image_max_overshoot, Whole(0))
    /\ a_steps = MaxSteps
    /\ Len(Sets) = a_steps + 1
    /\ Sets[2].value = Whole(0)
    /\ Sets[a_steps + 1].value = Whole(1)

\* C30: when the ease-out slide with exponent p > 1 has ended, the offsets of
\* steps 0..N are monotonic, the first is the start coordinate, the last the
\* end coordinate, and exactly N + 1 set-transform calls were issued with a
\* pause between consecutive calls only.
C30_SlideComplete ==
    (a_fn = "slide" /\ a_config.text_easing_power > 1 /\ a_step > a_steps)
    => /\ Len(Sets) = a_steps + 1
       /\ Len(a_log) = 2 * a_steps + 1
       /\ \A k \in DOMAIN a_log : (a_log[k].op = "sleep") <=> (k % 2 = 0)
       /\ Sets[1].value = a_config.text_start_x
       /\ Sets[Len(Sets)].value = a_config.text_end_x
       /\ \/ \A k \in 1..(Len(Sets) - 1) : ~FLess(Sets[k + 1].value, Sets[k].value)
          \/ \A k \in 1..(Len(Sets) - 1) : ~FLess(Sets[k].value, Sets[k + 1].value)

\* ---------------------------------------------------- ticker-element claims
\* C31: RESET is idempotent: after reset_ticker_positions has run twice in a
\* row, every element whose call did not fail in the first run (offset of the
\* text, scale of each image) is as the first run left it.
C31_ResetIdempotent ==
    t_resets = 2
    => \A n \in ElementNames :
          (\A s \in t_failed : SourceOf(s) # n) => t_elements[n] = t_first[n]
\* two RESETs in a row, none of the first run's calls failed, and the first
\* had moved the text and hidden an image
C31_Witness ==
    /\ t_resets = 2
    /\ t_failed = {}
    /\ t_first["TickerText"].x = 0 - 400
    /\ t_first["TickerItemImage"].scale = 0
    /\ t_elements = t_first

\* the event carries the name an image slot is looked up by
Carries(slot, event_data) ==
    CASE slot = "player" -> "player_name" \in DOMAIN event_data
      [] slot = "event" -> "event_type" \in DOMAIN event_data
      [] slot = "item" -> "item_name" \in DOMAIN event_data
      [] slot = "location" -> "location_name" \in DOMAIN event_data
RECURSIVE MergedKeyByKey(_, _, _)
MergedKeyByKey(result, default, user) ==
    /\ IsDict(result)
    /\ DOMAIN result.items = DOMAIN default.items \cup DOMAIN user.items
    /\ \A key \in DOMAIN result.items :
          IF key \notin DOMAIN user.items THEN result.items[key] = default.items[key]
          ELSE IF key \in DOMAIN default.items
                  /\ IsDict(default.items[key]) /\ IsDict(user.items[key])
          THEN MergedKeyByKey(result.items[key], default.items[key], user.items[key])
          ELSE result.items[key] = user.items[key]
\* C33: merging overrides the defaults key by key, objects on both sides
\* recursively so that default sub-keys the user did not supply are kept, and
\* merging the same user document again changes nothing.
C33_MergeKeyByKey ==
    (m_merges >= 1 /\ IsDict(m_user))
    => /\ MergedKeyByKey(m_once, default_config, m_user)
       /\ m_config = m_once
\* merged twice: the user's action type replaced the default one, the
\* default scene_name beside it was kept, a new key was added
C33_Witness ==
    /\ m_merges = 2
    /\ IsDict(m_user)
    /\ "obs_port" \notin DOMAIN m_user.items
    /\ m_config.items["obs_port"] = Scalar("4455")
    /\ IsDict(m_config.items["obs_actions"])
    /\ "raw_message" \in DOMAIN m_config.items["obs_actions"].items
    /\ IsDict(m_config.items["obs_actions"].items["goal_completed"])
    /\ m_config.items["obs_actions"].items["goal_completed"].items["type"] = Scalar("u")
    /\ m_config.items["obs_actions"].items["goal_completed"].items["scene_name"]
          = Scalar("GoalCompleted")

\* ------------------------------------------------- run-of-the-bridge claims
\* C34: when a goal_completed event has been processed to the end (ticker,
\* celebration, configured action) with celebrations enabled and no call
\* failed, the active scene is the configured main scene.
C34_BackOnMainScene ==
    (pc \in IdlePcs /\ cur.type = "goal_completed" /\ config.enable_celebrations /\ nfail = 0)
    => current_scene = config.scene_name

\* C35: with animations enabled an image element is brought to a visible
\* scale during an event's ticker update only if its image was set for that
\* same event.
C35_ShownOnlyWhenSet ==
    (config.enable_animations /\ TickerReturned /\ nfail = 0)
    => \A k \in DOMAIN ImageSlots :
          Call("animate", ImageSlots[k], Steps) \in issued
          => Call("content", ImageSlots[k], 0) \in issued

\* C37: under the built-in default configuration, with no control-surface
\* call failing, an animated ticker update ends with the text element at the
\* end of its slide: the final slide step was issued to it after the RESET.
C37_TextSlidesIn ==
    (config_file = "default" /\ TickerReturned /\ nfail = 0)
    => Call("animate", "text", Steps) \in issued

\* C38: the ingestion loop does not stop while lines the client wrote before
\* it exited are still unread.
C38_NoLineLeftUnread ==
    LoopLeft => pending = 0

\* C39: when the program has ended and the control-surface connection had
\* been opened, the connection was disconnected exactly once.
C39_DisconnectedOnce ==
    (pc \in {"done", "returned"} /\ obs_client)
    => Cardinality({i \in DOMAIN exitLog : exitLog[i] = "disconnect"}) = 1

\* C40: without a control-surface client, handling an event issues no call,
\* fails nowhere and starts no ticker update, celebration or action: the bridge
\* is only ever at the loop, and when the loop was left through its handler
\* the line that raised was not an event.
C40_NoClientNoCalls ==
    ~obs_client =>
       /\ issued = {} /\ failed = {} /\ tasks = {}
       /\ sceneLog = <<>> /\ actionLog = <<>> /\ phaseLog = <<>> /\ ownerLog = <<>>
       /\ pc \in {"start", "returned", "loop", "readline", "stopped", "failed", "done"}
       /\ pc = "failed" => Len(matched) < lineNo
\* two event lines were read without a client and the loop reads on
C40_Witness ==
    ~obs_client /\ matched = <<1, 2>> /\ pc = "readline" /\ running
====
